---- MODULE Spec2Model ----
(***************************************************************************)
(* State-machine model of the ETL glue scripts of                          *)
(* supabase-meltano-bq-dagster.  Each script is a sequential program; it   *)
(* is modelled by its own group of variables and its own specification     *)
(* (SpecCleanup, SpecTransfer, ...).  The external services (RDS MySQL,    *)
(* BigQuery, S3, the local file system, subprocesses) are modelled by what *)
(* the scripts observe of them: row counts, sets of keys, exit codes, and  *)
(* calls that may raise.                                                   *)
(***************************************************************************)
EXTENDS Integers, Sequences, FiniteSets, TLC

\* ------------------------------------------------------------------ bounds
\* Largest row count of a table in the model.
MaxRows == 10

\* ---------------------------------------------------------------- universe
None == "None"
\* TABLE_NAMEs of the RDS database (INFORMATION_SCHEMA.TABLES).
Tables == {"orders", "customers"}
\* Row counts a table is given initially: empty, one row, and the two
\* largest counts (MaxRows - 1 of MaxRows is exactly the 90% tolerance).
RowSamples == {0, 1, MaxRows - 1, MaxRows}
\* The BigQuery side of a table: a row count, or no such table (the COUNT(*)
\* query raises).
NoTable == [exists |-> FALSE, rows |-> 0]
BQTable(n) == [exists |-> TRUE, rows |-> n]
BQSamples == {BQTable(n) : n \in RowSamples} \cup {NoTable}
\* The exit code of a process: <<>> while it runs, <<code>> once it exited.
Running == <<>>
Exited(code) == <<code>>

\* All orders in which a result set over S can be returned.
Perms(S) == {q \in [1..Cardinality(S) -> S] : \A a \in S : \E i \in DOMAIN q : q[i] = a}
\* SelectSeq with a one-argument test is Sequences' own; the list
\* comprehension [t for t in ts if t.name = n]:
FilterName(ts, n) == SelectSeq(ts, LAMBDA t : t.name = n)

VARIABLES
    \* ---- bec-meltano/delete-rds-after-load.py (RDSCleanupManager)
    cl_rds,        \* RDS: table -> COUNT(*)
    cl_rds0,       \* RDS row counts before the run (history)
    cl_bq,         \* BigQuery: table -> COUNT(*) or NoTable
    cl_args,       \* argparse namespace: table, dry_run, verify_only, force
    cl_pc,         \* position of the script
    cl_tables,     \* rds_tables still to be processed by the for loop
    cl_verified,   \* verified_tables
    cl_cleaned,    \* cleaned_tables
    cl_skipped,    \* skipped_tables
    cl_truncated,  \* tables a TRUNCATE was executed on (history)
    cl_exit,       \* process exit code
    \* ---- bec-aws-bq/rds-to-bq.py (RDSToBigQueryTransfer)
    tr_rds,        \* RDS: table -> COUNT(*)
    tr_bq,         \* BigQuery: table -> state of the table rds_<name>
    tr_args,       \* sys.argv: table_names, delete_after_transfer, slow
    tr_pc,         \* position of the script
    tr_tables,     \* tables_to_transfer still to be processed
    tr_cur,        \* the copy in progress (locals of the transfer methods)
    tr_pages,      \* row counts of the pages read by the copy in progress
    tr_changed,    \* the source table changed during the copy in progress
    tr_changes,    \* number of changes by other writers so far
    tr_count,      \* successful_transfers, successful_deletions, empty_tables_processed
    tr_result,     \* table -> outcome of its transfer in this run (history)
    tr_deleted,    \* tables whose DELETE was committed (history)
    tr_selected,   \* len(tables_to_transfer)
    tr_exit,       \* process exit code
    \* ---- the file loaders: s3_to_rds.py, CSV-RDS/s3-to-rds.py,
    \*      bec-aws-bq/csv-to-s3.py, CSV-RDS/csv-to-rds.py
    ld_script,     \* which of the four scripts is run
    ld_source,     \* files at the source (S3 staging prefix, local folder)
    ld_imported,   \* files at the imported prefix or folder
    ld_content,    \* file -> its data rows and columns
    ld_tables,     \* RDS: table name -> state of the table
    ld_s3,         \* objects uploaded to the S3 staging prefix (csv-to-s3.py)
    ld_pc,         \* position of the script
    ld_files,      \* listed files still to be processed
    ld_count,      \* successful and failed imports / uploads of the run
    ld_run,        \* number of the run of the script
    ld_last,       \* file -> the run and the results of its latest load and move (history)
    ld_counts,     \* file -> table row count after each of its loads (history)
    ld_exit,       \* process exit code
    \* ---- derivation of a table name from a file name
    nm_file,       \* the file name
    nm_loader,     \* the loader that derived a table name from it
    nm_table,      \* the table name derived
    \* ---- the orchestrators: main.py, CSV-RDS/main.py
    or_script,     \* which orchestrator is run
    or_args,       \* --stage and --check-connections
    or_env,        \* environment: variables set, scripts present, USE_MELTANO
    or_pc,         \* position of the orchestrator
    or_stage,      \* index of the next stage of the full pipeline
    or_success,    \* stage -> result of run_script ("none" before it has run)
    or_log,        \* scripts run as subprocesses, in order
    or_running,    \* stages whose subprocess has been started and has not exited
    or_summary,    \* the final summary has been printed
    or_exit,       \* process exit code
    \* ---- one call of a function that deletes the rows of an RDS table
    dl_function,   \* the function called
    dl_option,     \* its switch: dry_run, or RDS_CLEANUP_AFTER_TRANSFER
    dl_before,     \* rows of the table before the call
    dl_raises,     \* where the database raises during the call
    dl_result,     \* the result of the call (<<>> before it)
    \* ---- bec-meltano/rds-to-bq-meltano.py and meltano-post-hook.py
    ml_args,       \* the runner's command line
    ml_pc,         \* position of the runner and of the post-hook it starts
    ml_started,    \* the subprocesses started so far, in order
    ml_codes,      \* the return code of each subprocess that has ended
    ml_exit,       \* the runner's exit code
    \* ---- bec-dagster/dagster_pipeline.py: one run of all assets
    dg_status,     \* the state of each asset's step in the run
    dg_next,       \* position of the next step in the order of execution
    \* ---- hf-csv-s3/app.py: one call of upload_csv_with_complete_workflow
    up_batches,    \* the batches of 1000 records of the uploaded file
    up_pc,         \* position in the workflow
    up_import,     \* the file is in the csv-import folder of the bucket
    up_archive,    \* the file is in the csv-imported folder of the bucket
    up_table,      \* the table of the file: exists, batches of rows
    up_inserted,   \* successful_inserts, in batches
    up_success,    \* database_success (<<>> before step 2 has ended)
    \* ---- bec-aws-bq/supabase-bq.py
    sb_pc,         \* position of the script
    sb_index,      \* index of the table being processed
    sb_source,     \* Supabase: table -> rows it holds now
    sb_changes,    \* changes made to the Supabase tables by other clients
    sb_row_count,  \* row_count of the table being processed
    sb_offset,     \* offset of the next page
    sb_fetched,    \* len(all_data)
    sb_bq,         \* BigQuery: table -> rows and number of load jobs done
    \* ---- the environment of the scripts
    reachable      \* the database, the bucket and the warehouse accept connections

clVars == <<cl_rds, cl_rds0, cl_bq, cl_args, cl_pc, cl_tables, cl_verified,
            cl_cleaned, cl_skipped, cl_truncated, cl_exit>>

trVars == <<tr_rds, tr_bq, tr_args, tr_pc, tr_tables, tr_cur, tr_pages,
            tr_changed, tr_changes, tr_count, tr_result, tr_deleted,
            tr_selected, tr_exit>>

ldVars == <<ld_script, ld_source, ld_imported, ld_content, ld_tables, ld_s3,
            ld_pc, ld_files, ld_count, ld_run, ld_last, ld_counts,
            ld_exit>>
nmVars == <<nm_file, nm_loader, nm_table>>
orVars == <<or_script, or_args, or_env, or_pc, or_stage, or_success, or_log, or_running,
            or_summary, or_exit>>

dlVars == <<dl_function, dl_option, dl_before, dl_raises, dl_result>>

mlVars == <<ml_args, ml_pc, ml_started, ml_codes, ml_exit>>

dgVars == <<dg_status, dg_next>>

upVars == <<up_batches, up_pc, up_import, up_archive, up_table, up_inserted, up_success>>

sbVars == <<sb_pc, sb_index, sb_source, sb_changes, sb_row_count, sb_offset, sb_fetched, sb_bq>>

vars == <<clVars, trVars, ldVars, nmVars, orVars, dlVars, mlVars, dgVars, upVars, sbVars, reachable>>

\* What each script leaves alone: the state of the other scripts.
othersCleanup == <<trVars, ldVars, nmVars, orVars, dlVars, mlVars, dgVars, upVars, sbVars, reachable>>
othersTransfer == <<clVars, ldVars, nmVars, orVars, dlVars, mlVars, dgVars, upVars, sbVars, reachable>>
othersLoader == <<clVars, trVars, nmVars, orVars, dlVars, mlVars, dgVars, upVars, sbVars, reachable>>
othersName == <<clVars, trVars, ldVars, orVars, dlVars, mlVars, dgVars, upVars, sbVars, reachable>>
othersOrchestrator == <<clVars, trVars, ldVars, nmVars, dlVars, mlVars, dgVars, upVars, sbVars, reachable>>
othersDelete == <<clVars, trVars, ldVars, nmVars, orVars, mlVars, dgVars, upVars, sbVars, reachable>>
othersMeltano == <<clVars, trVars, ldVars, nmVars, orVars, dlVars, dgVars, upVars, sbVars, reachable>>
othersDagster == <<clVars, trVars, ldVars, nmVars, orVars, dlVars, mlVars, upVars, sbVars, reachable>>
othersApp == <<clVars, trVars, ldVars, nmVars, orVars, dlVars, mlVars, dgVars, sbVars, reachable>>
othersSupabase == <<clVars, trVars, ldVars, nmVars, orVars, dlVars, mlVars, dgVars, upVars, reachable>>

\* The connections set up at start-up (setup_mysql_connection,
\* setup_bigquery_client, setup_database, setup_s3) succeed only if the
\* service accepts connections; the script goes on only if they succeeded.
ConnectionsIgnored(up) == TRUE
ConnectionsReady(up) == up

\* Where a call that deletes the rows of a table can raise: nowhere, in the
\* COUNT(*) before the delete, in the DELETE or TRUNCATE statement, in the
\* commit, or in the COUNT(*) that verifies the delete afterwards.
DeleteFailures == {"none", "count", "delete", "commit", "verify"}
\* The result of such a call: the rows the table holds afterwards, whether
\* the delete was executed and committed, the value returned, whether the
\* transaction of the delete was rolled back, and whether the delete is
\* left uncommitted in the open transaction of the connection.
DeleteResult(rows, ran, ok, rolled_back, pending) ==
    [rows |-> rows, ran |-> ran, ok |-> ok, rolled_back |-> rolled_back,
     pending |-> pending]

\* ======================================================================
\* bec-meltano/delete-rds-after-load.py
\* ======================================================================

\* verify_bigquery_data: (bq_verified, bq_rows) for a table whose BigQuery
\* side is b.  A missing table makes the query raise: (False, 0).
verify_bigquery_data(b) ==
    IF ~b.exists THEN [verified |-> FALSE, rows |-> 0]
    ELSE IF b.rows > 0 THEN [verified |-> TRUE, rows |-> b.rows]
    ELSE [verified |-> FALSE, rows |-> 0]

RowCountMismatchNoTolerance(bq_rows, rds_rows) == FALSE
\* bq_rows < rds_rows * 0.9 (10% tolerance).  On the integers of the model
\* the float comparison and 10 * bq_rows < 9 * rds_rows agree.
RowCountMismatch(bq_rows, rds_rows) == 10 * bq_rows < 9 * rds_rows

\* The verification block of cleanup_tables for one table: "skip_nodata",
\* "skip_mismatch" or "verified".
VerifyOutcome(force, b, rds_rows) ==
    IF force THEN "verified"
    ELSE LET v == verify_bigquery_data(b) IN
         IF ~v.verified THEN "skip_nodata"
         ELSE IF RowCountMismatch(v.rows, rds_rows) THEN "skip_mismatch"
         ELSE "verified"

CleanupArgs ==
    [table : Tables \cup {None, "nosuch"}, dry_run : BOOLEAN,
     verify_only : BOOLEAN, force : BOOLEAN]

InitCleanupVars ==
    /\ cl_rds \in [Tables -> RowSamples]
    /\ cl_rds0 = cl_rds
    /\ cl_bq \in [Tables -> BQSamples]
    /\ cl_args \in CleanupArgs
    /\ cl_pc = "main"
    /\ cl_tables = <<>>
    /\ cl_verified = 0
    /\ cl_cleaned = 0
    /\ cl_skipped = 0
    /\ cl_truncated = {}
    /\ cl_exit = Running

\* A script that is not the one being run.
IdleCleanup ==
    /\ cl_rds = [t \in Tables |-> 0]
    /\ cl_rds0 = cl_rds
    /\ cl_bq = [t \in Tables |-> NoTable]
    /\ cl_args = [table |-> None, dry_run |-> FALSE, verify_only |-> FALSE,
                  force |-> FALSE]
    /\ cl_pc = "idle"
    /\ cl_tables = <<>>
    /\ cl_verified = 0
    /\ cl_cleaned = 0
    /\ cl_skipped = 0
    /\ cl_truncated = {}
    /\ cl_exit = Running

CleanupExit(code) ==
    /\ cl_pc' = "exit"
    /\ cl_exit' = Exited(code)
    /\ cl_tables' = <<>>

\* main: --force together with --dry-run or --verify-only is rejected.
CleanupRejectArgs ==
    /\ cl_pc = "main"
    /\ cl_args.force /\ (cl_args.dry_run \/ cl_args.verify_only)
    /\ CleanupExit(1)
    /\ UNCHANGED <<cl_rds, cl_rds0, cl_bq, cl_args, cl_verified, cl_cleaned,
                   cl_skipped, cl_truncated>>
    /\ UNCHANGED othersCleanup

\* cleanup_tables: setup_mysql_connection or setup_bigquery_client returns
\* False, or get_rds_tables raises and returns []: return False, exit 1.
CleanupConnectFail ==
    /\ cl_pc = "main"
    /\ ~(cl_args.force /\ (cl_args.dry_run \/ cl_args.verify_only))
    /\ CleanupExit(1)
    /\ UNCHANGED <<cl_rds, cl_rds0, cl_bq, cl_args, cl_verified, cl_cleaned,
                   cl_skipped, cl_truncated>>
    /\ UNCHANGED othersCleanup

\* cleanup_tables up to the for loop: get_rds_tables (any order: ORDER BY
\* the estimated TABLE_ROWS), with actual_rows counted now, then the
\* --table filter.
CleanupScan ==
    /\ cl_pc = "main"
    /\ ConnectionsReady(reachable)
    /\ ~(cl_args.force /\ (cl_args.dry_run \/ cl_args.verify_only))
    /\ \E order \in Perms(Tables) :
         LET rds_tables == [i \in DOMAIN order |->
                              [name |-> order[i], actual_rows |-> cl_rds[order[i]]]]
             selected == IF cl_args.table # None
                         THEN FilterName(rds_tables, cl_args.table)
                         ELSE rds_tables
         IN IF selected = <<>>
            THEN CleanupExit(1)
            ELSE /\ cl_tables' = selected
                 /\ cl_pc' = "loop"
                 /\ cl_exit' = cl_exit
    /\ UNCHANGED <<cl_rds, cl_rds0, cl_bq, cl_args, cl_verified, cl_cleaned,
                   cl_skipped, cl_truncated>>
    /\ UNCHANGED othersCleanup

\* One iteration of the for loop that ends in a `continue` before the
\* cleanup: empty table, no BigQuery data, row count mismatch.
CleanupSkip ==
    /\ cl_pc = "loop" /\ cl_tables # <<>>
    /\ LET table_info == Head(cl_tables) IN
         \/ table_info.actual_rows = 0
         \/ VerifyOutcome(cl_args.force, cl_bq[table_info.name],
                          table_info.actual_rows) # "verified"
    /\ cl_skipped' = cl_skipped + 1
    /\ cl_tables' = Tail(cl_tables)
    /\ UNCHANGED <<cl_rds, cl_rds0, cl_bq, cl_args, cl_pc, cl_verified,
                   cl_cleaned, cl_truncated, cl_exit>>
    /\ UNCHANGED othersCleanup

\* One iteration that passes verification in --verify-only mode.
CleanupVerifyOnly ==
    /\ cl_pc = "loop" /\ cl_tables # <<>>
    /\ LET table_info == Head(cl_tables) IN
         /\ table_info.actual_rows # 0
         /\ VerifyOutcome(cl_args.force, cl_bq[table_info.name],
                          table_info.actual_rows) = "verified"
    /\ cl_args.verify_only
    /\ cl_verified' = cl_verified + 1
    /\ cl_tables' = Tail(cl_tables)
    /\ UNCHANGED <<cl_rds, cl_rds0, cl_bq, cl_args, cl_pc, cl_cleaned,
                   cl_skipped, cl_truncated, cl_exit>>
    /\ UNCHANGED othersCleanup

\* truncate_rds_table(table_name, dry_run) with `raises` the place where
\* the database raises.  TRUNCATE is executed without a transaction of its
\* own and nothing is rolled back: a TRUNCATE that raises leaves the rows,
\* one that has run has removed them even if the commit or the verifying
\* count raises afterwards.
truncate_despite_dry_run(rows_before, dry_run, raises) ==
    IF raises = "count" THEN DeleteResult(rows_before, FALSE, FALSE, FALSE, FALSE)
    ELSE IF rows_before = 0 THEN DeleteResult(0, FALSE, TRUE, FALSE, FALSE)
    ELSE IF raises = "delete"
    THEN DeleteResult(rows_before, FALSE, FALSE, FALSE, FALSE)
    ELSE DeleteResult(0, TRUE, raises = "none", FALSE, FALSE)
truncate_rds_table(rows_before, dry_run, raises) ==
    IF dry_run THEN DeleteResult(rows_before, FALSE, TRUE, FALSE, FALSE)
    ELSE IF raises = "count" THEN DeleteResult(rows_before, FALSE, FALSE, FALSE, FALSE)
    ELSE IF rows_before = 0 THEN DeleteResult(0, FALSE, TRUE, FALSE, FALSE)
    ELSE IF raises = "delete" THEN DeleteResult(rows_before, FALSE, FALSE, FALSE, FALSE)
    ELSE DeleteResult(0, TRUE, raises = "none", FALSE, FALSE)

\* One iteration that passes verification and performs the cleanup.
CleanupTruncate ==
    /\ cl_pc = "loop" /\ cl_tables # <<>>
    /\ ~cl_args.verify_only
    /\ LET table_info == Head(cl_tables)
           t == table_info.name
       IN /\ table_info.actual_rows # 0
          /\ VerifyOutcome(cl_args.force, cl_bq[t], table_info.actual_rows) = "verified"
          /\ \E raises \in DeleteFailures :
               LET r == truncate_rds_table(cl_rds[t], cl_args.dry_run, raises) IN
                 /\ cl_rds' = [cl_rds EXCEPT ![t] = r.rows]
                 /\ cl_truncated' = IF r.ran THEN cl_truncated \cup {t} ELSE cl_truncated
                 /\ cl_cleaned' = IF r.ok THEN cl_cleaned + 1 ELSE cl_cleaned
    /\ cl_verified' = cl_verified + 1
    /\ cl_tables' = Tail(cl_tables)
    /\ UNCHANGED <<cl_rds0, cl_bq, cl_args, cl_pc, cl_skipped, cl_exit>>
    /\ UNCHANGED othersCleanup

\* The return value of cleanup_tables after the loop.
cleanup_result(verify_only, verified_tables, cleaned_tables) ==
    IF verify_only THEN verified_tables > 0
    ELSE cleaned_tables = verified_tables

\* Summary, return, and main's sys.exit.
CleanupFinish ==
    /\ cl_pc = "loop" /\ cl_tables = <<>>
    /\ CleanupExit(IF cleanup_result(cl_args.verify_only, cl_verified, cl_cleaned)
                   THEN 0 ELSE 1)
    /\ UNCHANGED <<cl_rds, cl_rds0, cl_bq, cl_args, cl_verified, cl_cleaned,
                   cl_skipped, cl_truncated>>
    /\ UNCHANGED othersCleanup

NextCleanup ==
    \/ CleanupRejectArgs
    \/ CleanupConnectFail
    \/ CleanupScan
    \/ CleanupSkip
    \/ CleanupVerifyOnly
    \/ CleanupTruncate
    \/ CleanupFinish

\* ---------------------------------------------------------------- claims

\* Rows of table t were deleted by the run.
CleanupDeleted(t) == cl_rds[t] < cl_rds0[t]
\* The BigQuery row count of t (0 when the table does not exist).
BQCount(t) == IF cl_bq[t].exists THEN cl_bq[t].rows ELSE 0
\* The checks of the claim: destination count > 0 and at least 90% of the
\* source count.
CleanupChecksPass(t) == BQCount(t) > 0 /\ 10 * BQCount(t) >= 9 * cl_rds0[t]

\* C1 (as stated): cleanup_tables deletes the rows of an RDS table only when
\* the BigQuery row count of that table is > 0 and at least 90% of the RDS
\* row count; in every other case no rows of the table are deleted.
C1_Original == \A t \in Tables : CleanupDeleted(t) => CleanupChecksPass(t)

\* C1 (amended): unless the run is in --force mode, which skips the
\* BigQuery verification altogether, cleanup_tables deletes the rows of an
\* RDS table only when the BigQuery row count of that table is > 0 and at
\* least 90% of the RDS row count.
C1_DeleteOnlyWhenVerifiedOrForced ==
    \A t \in Tables : CleanupDeleted(t) => (cl_args.force \/ CleanupChecksPass(t))

\* A verified, non-forced run has deleted the rows of a table whose
\* BigQuery count is below its RDS count but within the tolerance.
C1_Witness ==
    \E t \in Tables :
        /\ CleanupDeleted(t) /\ ~cl_args.force
        /\ BQCount(t) < cl_rds0[t]
        /\ cl_pc = "exit"

\* C17: in a run with --dry-run or --verify-only no TRUNCATE or DELETE is
\* executed: no table is truncated and every RDS table holds the rows it
\* held at the start.
C17_DryRunDeletesNothing ==
    (cl_args.dry_run \/ cl_args.verify_only) =>
        /\ cl_truncated = {}
        /\ cl_rds = cl_rds0

\* A --dry-run run has ended with exit code 0 after reporting the cleanup
\* of a verified table, whose rows are all still there.
C17_Witness ==
    /\ cl_args.dry_run /\ ~cl_args.verify_only
    /\ cl_pc = "exit" /\ cl_exit = Exited(0)
    /\ cl_cleaned > 0 /\ cl_cleaned = cl_verified
    /\ \E t \in Tables : cl_rds[t] > 0 /\ CleanupChecksPass(t)

\* ======================================================================
\* bec-aws-bq/rds-to-bq.py
\* ======================================================================

\* Program constants of the copy.
default_chunk_size == 50000
large_chunk_size == 100000
fallback_chunk_size == 10000
fast_method_threshold == 50000

\* Largest number of changes other writers make to the source in a run.
MaxChanges == 1
\* Largest page size of a direct call of _transfer_table_chunked.
MaxChunk == 4

\* Row counts of the RDS tables of a run: empty, less than a page, one row
\* more than a default page (optimized method), more than a large page.
TransferRowSamples ==
    {0, MaxRows, default_chunk_size + 1, large_chunk_size + MaxRows}

\* transfer_table_to_bigquery's use_fast_method.  run_transfer calls it
\* without the argument and main sets the attribute only if the object
\* already has it, which it never has: the default, True, whatever --slow.
use_fast_method(slow) == TRUE

\* transfer_table_to_bigquery: the method and page size for total_rows > 0.
ChooseMethod(fast, total_rows) ==
    IF fast /\ total_rows > fast_method_threshold
    THEN [method |-> "optimized", chunk_size |-> large_chunk_size]
    ELSE [method |-> "chunked", chunk_size |-> default_chunk_size]

\* for offset in range(0, total_rows, chunk_size): another page is due.
HasNextPageOffByOne(offset, total_rows) == offset + 1 < total_rows
HasNextPage(offset, total_rows) == offset < total_rows

\* len(df_chunk) for SELECT * ... LIMIT chunk_size OFFSET offset on a table
\* that holds `rows` rows at the time of the query.
Min(a, b) == IF a < b THEN a ELSE b
Max(a, b) == IF a > b THEN a ELSE b
PageRows(rows, chunk_size, offset) == Max(0, Min(chunk_size, rows - offset))

\* load_table_from_dataframe with WRITE_TRUNCATE for the first page and
\* WRITE_APPEND for the others: the BigQuery table afterwards.
LoadPageAlwaysTruncate(b, offset, n) == BQTable(n)
LoadPage(b, offset, n) ==
    IF offset = 0 THEN BQTable(n)
    ELSE BQTable((IF b.exists THEN b.rows ELSE 0) + n)

\* return total_rows == bq_rows
TransferVerifiedAlways(total_rows, bq_rows) == TRUE
TransferVerified(total_rows, bq_rows) == total_rows = bq_rows

\* delete_rds_table_data with `raises` the place where the database raises.
\* The DELETE and the commit run in a transaction that is rolled back when
\* either raises; the verifying count comes after the commit.
delete_without_rollback(rows_before, raises) ==
    IF raises = "count" THEN DeleteResult(rows_before, FALSE, FALSE, FALSE, FALSE)
    ELSE IF rows_before = 0 THEN DeleteResult(0, FALSE, TRUE, FALSE, FALSE)
    ELSE IF raises = "delete" THEN DeleteResult(rows_before, FALSE, FALSE, FALSE, FALSE)
    ELSE IF raises = "commit" THEN DeleteResult(rows_before, FALSE, FALSE, FALSE, TRUE)
    ELSE DeleteResult(0, TRUE, raises = "none", FALSE, FALSE)
delete_rds_table_data(rows_before, raises) ==
    IF raises = "count" THEN DeleteResult(rows_before, FALSE, FALSE, FALSE, FALSE)
    ELSE IF rows_before = 0 THEN DeleteResult(0, FALSE, TRUE, FALSE, FALSE)
    ELSE IF raises \in {"delete", "commit"}
    THEN DeleteResult(rows_before, FALSE, FALSE, TRUE, FALSE)
    ELSE DeleteResult(0, TRUE, raises = "none", FALSE, FALSE)

\* `if delete_after_transfer:` in run_transfer; main passes False when
\* --no-delete is among the arguments.
DeletionEnabledAlways(delete_after_transfer) == TRUE
DeletionEnabled(delete_after_transfer) == delete_after_transfer

SumSeq(q) ==
    LET RECURSIVE sum(_)
        sum(i) == IF i = 0 THEN 0 ELSE q[i] + sum(i - 1)
    IN sum(Len(q))

NoCopy == [name |-> None, actual_rows |-> 0, total_rows |-> 0, method |-> None,
           chunk_size |-> 0, offset |-> 0, transferred_rows |-> 0]
NoResult == [status |-> "none", total_rows |-> 0, bq_rows |-> 0,
             deleted |-> "none"]
ZeroCounts == [successful_transfers |-> 0, successful_deletions |-> 0,
               empty_tables_processed |-> 0]

TransferArgs ==
    [table_names : {{}, {"orders"}, {"nosuch"}}, delete_after_transfer : BOOLEAN,
     slow : BOOLEAN]

InitTransferVars ==
    /\ tr_rds \in [Tables -> TransferRowSamples]
    /\ tr_bq \in [Tables -> {NoTable, BQTable(MaxRows)}]
    /\ tr_args \in TransferArgs
    /\ tr_pc = "main"
    /\ tr_tables = <<>>
    /\ tr_cur = NoCopy
    /\ tr_pages = <<>>
    /\ tr_changed = FALSE
    /\ tr_changes = 0
    /\ tr_count = ZeroCounts
    /\ tr_result = [t \in Tables |-> NoResult]
    /\ tr_deleted = {}
    /\ tr_selected = 0
    /\ tr_exit = Running

IdleTransfer ==
    /\ tr_rds = [t \in Tables |-> 0]
    /\ tr_bq = [t \in Tables |-> NoTable]
    /\ tr_args = [table_names |-> {}, delete_after_transfer |-> FALSE, slow |-> FALSE]
    /\ tr_pc = "idle"
    /\ tr_tables = <<>>
    /\ tr_cur = NoCopy
    /\ tr_pages = <<>>
    /\ tr_changed = FALSE
    /\ tr_changes = 0
    /\ tr_count = ZeroCounts
    /\ tr_result = [t \in Tables |-> NoResult]
    /\ tr_deleted = {}
    /\ tr_selected = 0
    /\ tr_exit = Running

\* A direct call _transfer_table_chunked("orders", "rds_orders", total_rows,
\* chunk_size) for any total_rows >= 0 and chunk_size >= 1, as the last
\* table of a run.
InitChunkedVars ==
    /\ \E total_rows \in 0..MaxRows, chunk_size \in 1..MaxChunk :
         /\ tr_rds = [t \in Tables |-> IF t = "orders" THEN total_rows ELSE 0]
         /\ tr_cur = [name |-> "orders", actual_rows |-> total_rows,
                      total_rows |-> total_rows, method |-> "chunked",
                      chunk_size |-> chunk_size, offset |-> 0,
                      transferred_rows |-> 0]
    /\ tr_bq \in [Tables -> {NoTable, BQTable(MaxRows)}]
    /\ tr_args \in [table_names : {{"orders"}}, delete_after_transfer : BOOLEAN,
                    slow : {TRUE}]
    /\ tr_pc = "pages"
    /\ tr_tables = <<>>
    /\ tr_pages = <<>>
    /\ tr_changed = FALSE
    /\ tr_changes = 0
    /\ tr_count = ZeroCounts
    /\ tr_result = [t \in Tables |-> NoResult]
    /\ tr_deleted = {}
    /\ tr_selected = 1
    /\ tr_exit = Running

\* run_transfer: a connection or the dataset cannot be set up, or
\* scan_rds_tables raises and returns []: return False, exit 1.
TransferConnectFail ==
    /\ tr_pc = "main"
    /\ tr_pc' = "exit"
    /\ tr_exit' = Exited(1)
    /\ UNCHANGED <<tr_rds, tr_bq, tr_args, tr_tables, tr_cur, tr_pages,
                   tr_changed, tr_changes, tr_count, tr_result, tr_deleted,
                   tr_selected>>
    /\ UNCHANGED othersTransfer

\* run_transfer up to the for loop: scan_rds_tables (any order) and the
\* table_names filter.
TransferScan ==
    /\ tr_pc = "main"
    /\ ConnectionsReady(reachable)
    /\ \E order \in Perms(Tables) :
         LET tables_to_transfer ==
                 IF tr_args.table_names # {}
                 THEN SelectSeq(order, LAMBDA t : t \in tr_args.table_names)
                 ELSE order
         IN IF tables_to_transfer = <<>>
            THEN /\ tr_pc' = "exit"
                 /\ tr_exit' = Exited(1)
                 /\ UNCHANGED <<tr_tables, tr_selected>>
            ELSE /\ tr_pc' = "loop"
                 /\ tr_tables' = tables_to_transfer
                 /\ tr_selected' = Len(tables_to_transfer)
                 /\ tr_exit' = tr_exit
    /\ UNCHANGED <<tr_rds, tr_bq, tr_args, tr_cur, tr_pages, tr_changed,
                   tr_changes, tr_count, tr_result, tr_deleted>>
    /\ UNCHANGED othersTransfer

\* The rest of one iteration of run_transfer's loop once
\* transfer_table_to_bigquery has returned `ok` for table t: counters, and
\* delete_rds_table_data when the transfer succeeded with data.
AfterTransfer(t, actual_rows, ok, total_rows, bq_rows) ==
    /\ LET Result(deleted) ==
               [tr_result EXCEPT ![t] =
                   [status |-> IF ok THEN "ok" ELSE "failed",
                    total_rows |-> total_rows, bq_rows |-> bq_rows,
                    deleted |-> deleted]]
       IN IF ok /\ actual_rows > 0
          THEN IF DeletionEnabled(tr_args.delete_after_transfer)
               THEN \E raises \in DeleteFailures :
                      LET d == delete_rds_table_data(tr_rds[t], raises) IN
                        /\ tr_result' = Result(IF d.ok THEN "ok" ELSE "failed")
                        /\ tr_rds' = [tr_rds EXCEPT ![t] = d.rows]
                        /\ tr_deleted' = IF d.ran THEN tr_deleted \cup {t}
                                         ELSE tr_deleted
                        /\ tr_count' = [tr_count EXCEPT
                               !.successful_transfers = @ + 1,
                               !.successful_deletions = IF d.ok THEN @ + 1 ELSE @]
               ELSE /\ tr_result' = Result("none")
                    /\ tr_count' = [tr_count EXCEPT !.successful_transfers = @ + 1]
                    /\ UNCHANGED <<tr_rds, tr_deleted>>
          ELSE /\ tr_result' = Result("none")
               /\ tr_count' = IF ok
                              THEN [tr_count EXCEPT !.empty_tables_processed = @ + 1]
                              ELSE tr_count
               /\ UNCHANGED <<tr_rds, tr_deleted>>
    /\ tr_pc' = "loop"
    /\ tr_cur' = NoCopy

\* One iteration that copies nothing: the table is empty (transfer returns
\* True) or transfer_table_to_bigquery's COUNT(*) raises (returns False).
\* actual_rows is 0 when run_transfer's own COUNT(*) raises.
TransferNoCopy ==
    /\ tr_pc = "loop" /\ tr_tables # <<>>
    /\ LET t == Head(tr_tables) IN
         \E countRaises \in BOOLEAN, transferRaises \in BOOLEAN :
           LET actual_rows == IF countRaises THEN 0 ELSE tr_rds[t] IN
             /\ transferRaises \/ tr_rds[t] = 0
             /\ AfterTransfer(t, actual_rows, ~transferRaises, tr_rds[t], 0)
    /\ tr_tables' = Tail(tr_tables)
    /\ UNCHANGED <<tr_bq, tr_args, tr_pages, tr_changed, tr_changes,
                   tr_selected, tr_exit>>
    /\ UNCHANGED othersTransfer

\* One iteration that starts a copy: total_rows > 0, method chosen.
TransferBeginCopy ==
    /\ tr_pc = "loop" /\ tr_tables # <<>>
    /\ LET t == Head(tr_tables)
           total_rows == tr_rds[t]
           m == ChooseMethod(use_fast_method(tr_args.slow), total_rows)
       IN /\ total_rows > 0
          /\ \E countRaises \in BOOLEAN :
               tr_cur' = [name |-> t,
                          actual_rows |-> IF countRaises THEN 0 ELSE tr_rds[t],
                          total_rows |-> total_rows, method |-> m.method,
                          chunk_size |-> m.chunk_size, offset |-> 0,
                          transferred_rows |-> 0]
    /\ tr_tables' = Tail(tr_tables)
    /\ tr_pc' = "pages"
    /\ tr_pages' = <<>>
    /\ tr_changed' = FALSE
    /\ UNCHANGED <<tr_rds, tr_bq, tr_args, tr_changes, tr_count, tr_result,
                   tr_deleted, tr_selected, tr_exit>>
    /\ UNCHANGED othersTransfer

\* One pass of the page loop of _transfer_table_chunked or
\* _transfer_large_table_optimized: when range() is exhausted go on to the
\* verification; else read a page, break if it is empty, else load it and
\* count it.
TransferPage ==
    /\ tr_pc = "pages"
    /\ LET t == tr_cur.name
           n == PageRows(tr_rds[t], tr_cur.chunk_size, tr_cur.offset)
       IN IF ~HasNextPage(tr_cur.offset, tr_cur.total_rows) \/ n = 0
          THEN /\ tr_pc' = "verify"
               /\ UNCHANGED <<tr_bq, tr_cur, tr_pages>>
          ELSE /\ tr_bq' = [tr_bq EXCEPT ![t] = LoadPage(tr_bq[t], tr_cur.offset, n)]
               /\ tr_pages' = Append(tr_pages, n)
               /\ tr_cur' = [tr_cur EXCEPT !.offset = @ + tr_cur.chunk_size,
                                           !.transferred_rows = @ + n]
               /\ tr_pc' = "pages"
    /\ UNCHANGED <<tr_rds, tr_args, tr_tables, tr_changed, tr_changes, tr_count,
                   tr_result, tr_deleted, tr_selected, tr_exit>>
    /\ UNCHANGED othersTransfer

\* A call of the page loop or of the verification raises.  The optimized
\* method falls back to the chunked method with pages of 10000 rows; the
\* chunked method returns False.
TransferRaises ==
    /\ tr_pc \in {"pages", "verify"}
    /\ IF tr_cur.method = "optimized"
       THEN /\ tr_cur' = [tr_cur EXCEPT !.method = "chunked",
                              !.chunk_size = fallback_chunk_size,
                              !.offset = 0, !.transferred_rows = 0]
            /\ tr_pages' = <<>>
            /\ tr_changed' = FALSE
            /\ tr_pc' = "pages"
            /\ UNCHANGED <<tr_rds, tr_count, tr_result, tr_deleted>>
       ELSE /\ AfterTransfer(tr_cur.name, tr_cur.actual_rows, FALSE,
                             tr_cur.total_rows, 0)
            /\ UNCHANGED <<tr_pages, tr_changed>>
    /\ UNCHANGED <<tr_bq, tr_args, tr_tables, tr_changes, tr_selected, tr_exit>>
    /\ UNCHANGED othersTransfer

\* The end of a copy: SELECT COUNT(*) on the BigQuery table, the result
\* total_rows == bq_rows, then the rest of run_transfer's iteration.
TransferVerify ==
    /\ tr_pc = "verify"
    /\ tr_bq[tr_cur.name].exists
    /\ LET bq_rows == tr_bq[tr_cur.name].rows IN
         AfterTransfer(tr_cur.name, tr_cur.actual_rows,
                       TransferVerified(tr_cur.total_rows, bq_rows),
                       tr_cur.total_rows, bq_rows)
    /\ UNCHANGED <<tr_bq, tr_args, tr_tables, tr_pages, tr_changed, tr_changes,
                   tr_selected, tr_exit>>
    /\ UNCHANGED othersTransfer

\* Another writer inserts or deletes rows of the table being copied while
\* the copy is paginating.
TransferSourceChange ==
    /\ tr_pc = "pages"
    /\ tr_changes < MaxChanges
    /\ \E rows \in {0, tr_cur.total_rows - 1, tr_cur.total_rows + 1} :
         /\ rows >= 0 /\ rows # tr_rds[tr_cur.name]
         /\ tr_rds' = [tr_rds EXCEPT ![tr_cur.name] = rows]
    /\ tr_changed' = TRUE
    /\ tr_changes' = tr_changes + 1
    /\ UNCHANGED <<tr_bq, tr_args, tr_pc, tr_tables, tr_cur, tr_pages, tr_count,
                   tr_result, tr_deleted, tr_selected, tr_exit>>
    /\ UNCHANGED othersTransfer

\* run_transfer's return value.
transfer_result(c, selected, delete_after_transfer) ==
    LET all_tables_processed ==
            c.successful_transfers + c.empty_tables_processed = selected
        all_deletions_ok ==
            ~delete_after_transfer \/ c.successful_deletions = c.successful_transfers
    IN all_tables_processed /\ all_deletions_ok

\* Summary, return, and main's sys.exit.
TransferFinish ==
    /\ tr_pc = "loop" /\ tr_tables = <<>>
    /\ tr_pc' = "exit"
    /\ tr_exit' = Exited(IF transfer_result(tr_count, tr_selected,
                                            tr_args.delete_after_transfer)
                         THEN 0 ELSE 1)
    /\ UNCHANGED <<tr_rds, tr_bq, tr_args, tr_tables, tr_cur, tr_pages,
                   tr_changed, tr_changes, tr_count, tr_result, tr_deleted,
                   tr_selected>>
    /\ UNCHANGED othersTransfer

NextTransfer ==
    \/ TransferConnectFail
    \/ TransferScan
    \/ TransferNoCopy
    \/ TransferBeginCopy
    \/ TransferPage
    \/ TransferRaises
    \/ TransferVerify
    \/ TransferSourceChange
    \/ TransferFinish

\* The steps of a direct call of _transfer_table_chunked.
NextChunked ==
    \/ TransferPage
    \/ TransferRaises
    \/ TransferVerify
    \/ TransferSourceChange
    \/ TransferFinish

\* ---------------------------------------------------------------- claims

\* C2: in run_transfer the rows of an RDS table are deleted only if that
\* table's transfer returned success earlier in the same run, with the
\* BigQuery row count equal to the MySQL row count; a table whose transfer
\* failed or whose counts mismatched has had no DELETE.
C2_DeleteOnlyAfterVerifiedTransfer ==
    \A t \in Tables :
        /\ t \in tr_deleted =>
              /\ tr_result[t].status = "ok"
              /\ tr_result[t].total_rows > 0
              /\ tr_result[t].bq_rows = tr_result[t].total_rows
        /\ (tr_result[t].status = "failed"
            \/ tr_result[t].bq_rows # tr_result[t].total_rows) => t \notin tr_deleted

\* The run has deleted the rows of one table after its verified transfer
\* and kept those of another whose transfer failed.
C2_Witness ==
    \E t, u \in Tables :
        /\ t \in tr_deleted /\ tr_rds[t] = 0 /\ tr_result[t].status = "ok"
        /\ tr_result[u].status = "failed" /\ tr_rds[u] > 0
        /\ tr_pc = "exit"

\* C16: in a run with --no-delete no DELETE is issued against any RDS
\* table, and no step of the run changes the rows of an RDS table (the
\* only changes are those of other writers): every table holds the rows
\* it would hold without the run.
C16_NoDeleteKeepsRows ==
    /\ [](~tr_args.delete_after_transfer => tr_deleted = {})
    /\ [][(~tr_args.delete_after_transfer /\ tr_changes' = tr_changes) =>
             tr_rds' = tr_rds]_vars

\* A run with --no-delete has ended with exit code 0 after a verified
\* transfer of a table that still holds its rows.
C16_Witness ==
    /\ ~tr_args.delete_after_transfer
    /\ tr_pc = "exit" /\ tr_exit = Exited(0)
    /\ \E t \in Tables :
          /\ tr_result[t] = [status |-> "ok", total_rows |-> MaxRows,
                             bq_rows |-> MaxRows, deleted |-> "none"]
          /\ tr_rds[t] = MaxRows
          /\ tr_bq[t] = BQTable(MaxRows)
          /\ tr_count.successful_transfers > 0

\* The loop of run_transfer has ended and run_transfer has returned.
TransferReturned == tr_pc = "exit" /\ tr_selected > 0
\* The transfer of the table returned True and found rows to copy.
TransferredWithData(t) ==
    tr_result[t].status = "ok" /\ tr_result[t].total_rows > 0

\* C27 as stated: run_transfer returns True exactly when the transfer of
\* every selected table succeeded (with data, or the table was empty) and,
\* with deletion enabled, delete_rds_table_data returned True for every
\* table that was transferred with data; and successful_transfers +
\* empty_tables_processed + the failed transfers is the number of selected
\* tables.
C27_Original ==
    TransferReturned =>
        /\ (tr_exit = Exited(0)) <=>
              /\ \A t \in Tables : tr_result[t].status # "failed"
              /\ tr_args.delete_after_transfer =>
                    \A t \in Tables :
                        TransferredWithData(t) => tr_result[t].deleted = "ok"
        /\ tr_count.successful_transfers + tr_count.empty_tables_processed
              + Cardinality({t \in Tables : tr_result[t].status = "failed"})
                 = tr_selected

\* C18 as stated: in a run with --slow every table is copied by
\* _transfer_table_chunked and _transfer_large_table_optimized is never
\* invoked.
C18_Original == tr_args.slow => tr_cur.method # "optimized"

\* The copy in progress has loaded its pages and the BigQuery table holds a
\* number of rows different from the source count taken at the start.
CopyEndsWithMismatch ==
    /\ tr_pc = "verify"
    /\ tr_bq[tr_cur.name].exists
    /\ tr_bq[tr_cur.name].rows # tr_cur.total_rows

\* C14: when a copy ends with a BigQuery row count different from the
\* source row count, the verification only reports it: the transfer of the
\* table returns False, the rows loaded into BigQuery stay as they are, the
\* page loop is not entered again for the table, and nothing is deleted
\* from the source; a table whose transfer has failed is not copied again
\* later in the run.
C14_MismatchOnlyReported ==
    [][/\ (CopyEndsWithMismatch /\ TransferVerify) =>
             /\ tr_bq' = tr_bq
             /\ tr_rds' = tr_rds
             /\ tr_result'[tr_cur.name] =
                  [status |-> "failed", total_rows |-> tr_cur.total_rows,
                   bq_rows |-> tr_bq[tr_cur.name].rows, deleted |-> "none"]
             /\ tr_pc' = "loop"
             /\ tr_cur' = NoCopy
             /\ tr_tables' = tr_tables
       /\ \A t \in Tables :
             tr_result[t].status = "failed" =>
                 /\ tr_result'[t] = tr_result[t]
                 /\ tr_bq'[t] = tr_bq[t]
                 /\ tr_cur'.name # t]_vars

\* A run has ended after a copy whose counts differed: the BigQuery table
\* still holds the rows that were loaded, fewer than the source count.
C14_Witness ==
    \E t \in Tables :
        /\ tr_pc = "exit" /\ tr_exit = Exited(1)
        /\ tr_result[t].status = "failed"
        /\ tr_result[t].bq_rows > 0
        /\ tr_result[t].bq_rows < tr_result[t].total_rows
        /\ tr_bq[t] = BQTable(tr_result[t].bq_rows)
        /\ tr_rds[t] > 0

\* The k-th page of LIMIT chunk_size OFFSET (k - 1) * chunk_size over a table
\* of total_rows rows.
ExpectedPage(k, chunk_size, total_rows) ==
    Min(chunk_size, total_rows - (k - 1) * chunk_size)

\* C5: for every total >= 0 and every page size >= 1, with the source table
\* unchanged during the copy, the pages read by the chunked copy (LIMIT
\* page_size OFFSET k * page_size, k = 0, 1, ...) have row counts that sum
\* to exactly total, including total = 0 and total = page_size.
C5_PagesSumToTotal ==
    (tr_pc = "verify" /\ ~tr_changed) =>
        /\ SumSeq(tr_pages) = tr_cur.total_rows
        /\ tr_cur.transferred_rows = tr_cur.total_rows
        /\ \A k \in DOMAIN tr_pages :
              tr_pages[k] = ExpectedPage(k, tr_cur.chunk_size, tr_cur.total_rows)

\* A copy of exactly one full page (total = page_size) has read its pages.
C5_Witness ==
    /\ tr_pc = "verify" /\ ~tr_changed
    /\ tr_cur.total_rows = tr_cur.chunk_size
    /\ tr_pages = <<tr_cur.chunk_size>>

\* ======================================================================
\* File names and table names (strings are sequences of characters)
\* ======================================================================

\* Largest length of the stem of a file name.
MaxStem == 3

Letters == {"a", "o", "B", "C", "S", "V", "c", "s", "v", "b"}
Digits == {"1"}
isalnum(c) == c \in Letters \cup Digits
\* str.lower on one character.
lower(c) ==
    CASE c = "B" -> "b" [] c = "C" -> "c" [] c = "S" -> "s" [] c = "V" -> "v"
      [] OTHER -> c
LowerStr(w) == [i \in DOMAIN w |-> lower(w[i])]
Csv == <<".", "c", "s", "v">>

\* str.endswith
endswith(w, suffix) ==
    /\ Len(w) >= Len(suffix)
    /\ SubSeq(w, Len(w) - Len(suffix) + 1, Len(w)) = suffix

\* os.path.splitext(filename)[0] for a name without directory separators:
\* cut at the last dot, unless only dots precede it.
splitext(w) ==
    LET dots == {i \in DOMAIN w : w[i] = "."} IN
    IF dots = {} THEN w
    ELSE LET dotIndex == CHOOSE i \in dots : \A j \in dots : j <= i IN
         IF \E k \in 1..(dotIndex - 1) : w[k] # "."
         THEN SubSeq(w, 1, dotIndex - 1)
         ELSE w

\* ''.join(c for c in name if c.isalnum() or c == '_')
KeepIdentifierChars(w) == SelectSeq(w, LAMBDA c : isalnum(c) \/ c = "_")
\* name.replace('-', '_').replace(' ', '_')
ReplaceSeparators(w) ==
    [i \in DOMAIN w |-> IF w[i] \in {"-", " "} THEN "_" ELSE w[i]]

\* The five loader scripts.
S3RDS == "s3_to_rds.py"
CSVRDS_S3 == "CSV-RDS/s3-to-rds.py"
CSVS3 == "bec-aws-bq/csv-to-s3.py"
CSVRDS == "CSV-RDS/csv-to-rds.py"
VIAS3 == "CSV-RDS/csv-to-rds-via-s3.py"
LoaderScripts == {S3RDS, CSVRDS_S3, CSVS3, CSVRDS, VIAS3}
\* Those that upload local files to the bucket (class CSVToS3Uploader).
Uploaders == {CSVS3, VIAS3}
\* Those that derive a table name from a file name.
TableLoaders == {S3RDS, CSVRDS_S3, CSVRDS}

\* process_s3_file / process_csv_file: the table name of a file.
\* s3_to_rds.py and csv-to-rds.py only strip the extension.
table_name(script, filename) ==
    IF script = CSVRDS_S3
    THEN KeepIdentifierChars(LowerStr(ReplaceSeparators(splitext(filename))))
    ELSE splitext(filename)

\* list_s3_files tests key.endswith('.csv'); the other listings lower-case
\* the name first.
IsListed(script, filename) ==
    IF script = S3RDS THEN endswith(filename, Csv)
    ELSE endswith(LowerStr(filename), Csv)

\* ======================================================================
\* The file loaders
\* ======================================================================

\* Largest number of runs of a loader script, one after another.
MaxRuns == 2

\* Files of the source location: o.csv, B-1.csv and B-1.CSV.
Files == {<<"o">> \o Csv, <<"B", "-", "1">> \o Csv,
          <<"B", "-", "1", ".", "C", "S", "V">>}
LoaderTableNames == {table_name(s, f) : s \in TableLoaders, f \in Files}
\* A file's data: rows and columns (header excluded).
\* o.csv and B-1.csv hold 3 rows in 2 columns, B-1.CSV 1 row in 1 column.
FileContent(f) ==
    IF endswith(f, Csv) THEN [rows |-> 3, cols |-> 2] ELSE [rows |-> 1, cols |-> 1]
\* An RDS table: absent, or its rows and columns.
AbsentTable == [exists |-> FALSE, rows |-> 0, cols |-> 0]
OldTable == [exists |-> TRUE, rows |-> 5, cols |-> 1]

\* Outcomes of the external calls of one file's processing: of the
\* preparation, of the load and of the move (a call that is not reached
\* has no outcome of its own).
MoveOutcomes == {"ok", "copy_fails", "delete_fails"}
Outcomes ==
    {<<"fails", "ok", "ok">>, <<"fails_after_drop", "ok", "ok">>,
     <<"ok", "read_fails", "ok">>, <<"ok", "insert_fails", "ok">>}
    \cup {<<"ok", "ok", mo>> : mo \in MoveOutcomes}

\* The code point of a character, and the order of sorted() and of the
\* keys that list_objects_v2 returns.
ord(c) ==
    CASE c = " " -> 32 [] c = "-" -> 45 [] c = "." -> 46 [] c = "1" -> 49
      [] c = "B" -> 66 [] c = "C" -> 67 [] c = "S" -> 83 [] c = "V" -> 86
      [] c = "_" -> 95 [] c = "a" -> 97 [] c = "b" -> 98 [] c = "c" -> 99
      [] c = "o" -> 111 [] c = "s" -> 115 [] c = "v" -> 118
Before(u, w) ==
    \E i \in 1..(Len(u) + 1) :
        /\ i <= Len(w)
        /\ \A j \in 1..(i - 1) : u[j] = w[j]
        /\ (i = Len(u) + 1 \/ ord(u[i]) < ord(w[i]))
\* The orders in which a script may list the files S: os.listdir of
\* csv-to-rds.py gives them in any order.
ListOrders(script, S) ==
    IF script = CSVRDS THEN Perms(S)
    ELSE {q \in Perms(S) :
            \A i, j \in DOMAIN q : i < j => Before(q[i], q[j])}

\* download_csv_from_s3 (s3_to_rds.py) and create_table_from_csv_structure
\* (CSV-RDS/s3-to-rds.py: DROP TABLE IF EXISTS, then CREATE TABLE with the
\* header's columns and CREATED_DATE); the other scripts prepare nothing.
PrepareWithoutDrop(script, tbl, content, outcome) ==
    [table |-> tbl, ok |-> outcome = "ok"]
Prepare(script, tbl, content, outcome) ==
    IF script = S3RDS THEN [table |-> tbl, ok |-> outcome = "ok"]
    ELSE IF script = CSVRDS_S3
    THEN CASE outcome = "ok" ->
                [table |-> [exists |-> TRUE, rows |-> 0, cols |-> content.cols + 1],
                 ok |-> TRUE]
           [] outcome = "fails" -> [table |-> tbl, ok |-> FALSE]
           [] OTHER -> [table |-> AbsentTable, ok |-> FALSE]
    ELSE [table |-> tbl, ok |-> TRUE]

\* The columns the load adds: CSV-RDS/s3-to-rds.py adds CREATED_DATE.
ExtraCols(script) == IF script = CSVRDS_S3 THEN 1 ELSE 0

\* load_csv_to_mysql / load_csv_from_s3_to_rds: pd.read_csv, then
\* df.to_sql(if_exists='replace').  read_csv raising leaves the table as it
\* is; to_sql raising after the table was replaced leaves it without rows.
load_csv_append(tbl, content, extra, outcome) ==
    CASE outcome = "ok" ->
            [table |-> [exists |-> TRUE, rows |-> tbl.rows + content.rows,
                        cols |-> content.cols + extra], ok |-> TRUE]
      [] OTHER -> [table |-> tbl, ok |-> FALSE]
load_csv_to_mysql(tbl, content, extra, outcome) ==
    CASE outcome = "ok" ->
            [table |-> [exists |-> TRUE, rows |-> content.rows,
                        cols |-> content.cols + extra], ok |-> TRUE]
      [] outcome = "read_fails" -> [table |-> tbl, ok |-> FALSE]
      [] OTHER ->
            [table |-> [exists |-> TRUE, rows |-> 0, cols |-> content.cols + extra],
             ok |-> FALSE]

\* move_s3_file_to_imported (copy_object, then delete_object) and
\* move_file_to_imported (shutil.move): the two locations afterwards and
\* the result.  A failed delete leaves the file at both.
move_without_delete(source, imported, f, outcome) ==
    IF outcome = "copy_fails"
    THEN [source |-> source, imported |-> imported, ok |-> FALSE]
    ELSE [source |-> source, imported |-> imported \cup {f}, ok |-> outcome = "ok"]
move_file_to_imported(source, imported, f, outcome) ==
    CASE outcome = "ok" ->
            [source |-> source \ {f}, imported |-> imported \cup {f}, ok |-> TRUE]
      [] outcome = "copy_fails" ->
            [source |-> source, imported |-> imported, ok |-> FALSE]
      [] OTHER ->
            [source |-> source, imported |-> imported \cup {f}, ok |-> FALSE]

\* `if success:` before the move: the move is attempted only after the
\* load or upload of the file returned True.
MoveRegardless(transfer_ok) == TRUE
MoveAfterSuccess(transfer_ok) == transfer_ok

\* What process_s3_file / process_csv_file / the loop body of
\* upload_all_csv_files count as a success.  CSV-RDS/s3-to-rds.py and
\* csv-to-s3.py count a file whose move failed as a success;
\* csv-to-rds-via-s3.py moves nothing in its upload loop.
FileSucceeded(script, transfer_ok, move_ok) ==
    IF script \in {CSVRDS_S3, CSVS3, VIAS3} THEN transfer_ok
    ELSE transfer_ok /\ move_ok

\* The exit code after the loop.  process_all_s3_files of s3_to_rds.py and
\* process_all_files of csv-to-rds.py return nothing and main exits 0.
LoaderExitCode(script, failed) ==
    IF script \in {S3RDS, CSVRDS} THEN 0
    ELSE IF failed = 0 THEN 0 ELSE 1

\* The listed files that remain after one file of the batch: the loops
\* catch every exception of an item (`except Exception`, or inside
\* upload_file_to_s3) and go on with the next file.
RestAfterAbort(files, good) == IF good THEN Tail(files) ELSE <<>>
RestWithRetry(files, good) == IF good THEN Tail(files) ELSE files
RestOfBatch(files, good) == Tail(files)

NoSteps == [run |-> 0, load |-> "none", move |-> "none"]

InitLoaderVars ==
    /\ ld_script \in LoaderScripts
    /\ ld_source = Files
    /\ ld_imported = {}
    /\ ld_content = [f \in Files |-> FileContent(f)]
    /\ ld_tables \in {[n \in LoaderTableNames |-> AbsentTable],
                      [n \in LoaderTableNames |-> OldTable]}
    /\ ld_s3 = {}
    /\ ld_pc = "main"
    /\ ld_files = <<>>
    /\ ld_count = [successful |-> 0, failed |-> 0]
    /\ ld_run = 1
    /\ ld_last = [f \in Files |-> NoSteps]
    /\ ld_counts = [f \in Files |-> <<>>]
    /\ ld_exit = Running

IdleLoader ==
    /\ ld_script = None
    /\ ld_source = {}
    /\ ld_imported = {}
    /\ ld_content = [f \in Files |-> [rows |-> 0, cols |-> 0]]
    /\ ld_tables = [n \in LoaderTableNames |-> AbsentTable]
    /\ ld_s3 = {}
    /\ ld_pc = "idle"
    /\ ld_files = <<>>
    /\ ld_count = [successful |-> 0, failed |-> 0]
    /\ ld_run = 0
    /\ ld_last = [f \in Files |-> NoSteps]
    /\ ld_counts = [f \in Files |-> <<>>]
    /\ ld_exit = Running

\* The database or the bucket cannot be reached at start-up: sys.exit(1)
\* in setup_database, an uncaught exception of setup_s3.
LoaderConnectFail ==
    /\ ld_pc = "main"
    /\ ld_pc' = "exit"
    /\ ld_exit' = Exited(1)
    /\ UNCHANGED <<ld_script, ld_source, ld_imported, ld_content, ld_tables,
                   ld_s3, ld_files, ld_count, ld_run, ld_last, ld_counts>>
    /\ UNCHANGED othersLoader

\* list_s3_files / list_s3_csv_files / find_csv_files / get_csv_files: the
\* listed files of the source, in the order of the listing; none listed
\* ends the run (exit code 0), except in csv-to-rds-via-s3.py, which goes
\* on to its import step.  A ClientError of the S3 listing is caught and
\* gives an empty list.
LoaderList ==
    /\ ld_pc = "main"
    /\ ConnectionsReady(reachable)
    /\ \E client_error \in BOOLEAN :
       /\ client_error => ld_script \in {S3RDS, CSVRDS_S3}
       /\ LET listed == IF client_error THEN {}
                        ELSE {f \in ld_source : IsListed(ld_script, f)} IN
         IF listed = {} /\ ld_script # VIAS3
         THEN /\ ld_pc' = "exit"
              /\ ld_exit' = Exited(0)
              /\ ld_files' = <<>>
         ELSE /\ ld_pc' = "loop"
              /\ ld_exit' = ld_exit
              /\ ld_files' \in ListOrders(ld_script, listed)
    /\ UNCHANGED <<ld_script, ld_source, ld_imported, ld_content, ld_tables,
                   ld_s3, ld_count, ld_run, ld_last, ld_counts>>
    /\ UNCHANGED othersLoader

\* One iteration of the loop of process_all_s3_files / process_all_files /
\* upload_all_csv_files over a file of a table loader: prepare, load into
\* the table, and move the file if the load succeeded.
LoaderProcessFile ==
    /\ ld_pc = "loop" /\ ld_files # <<>>
    /\ ld_script \in TableLoaders
    /\ LET f == Head(ld_files)
           n == table_name(ld_script, f)
       IN \E o \in Outcomes :
            LET po == o[1]
                lo == o[2]
                mo == o[3]
                p == Prepare(ld_script, ld_tables[n], ld_content[f], po)
                l == IF p.ok
                     THEN load_csv_to_mysql(p.table, ld_content[f],
                                            ExtraCols(ld_script), lo)
                     ELSE [table |-> p.table, ok |-> FALSE]
                moves == p.ok /\ MoveAfterSuccess(l.ok)
                m == IF moves
                     THEN move_file_to_imported(ld_source, ld_imported, f, mo)
                     ELSE [source |-> ld_source, imported |-> ld_imported,
                           ok |-> FALSE]
                good == FileSucceeded(ld_script, l.ok, m.ok)
            IN /\ ld_tables' = [ld_tables EXCEPT ![n] = l.table]
               /\ ld_source' = m.source
               /\ ld_imported' = m.imported
               /\ ld_last' = [ld_last EXCEPT ![f] =
                     [run |-> ld_run,
                      load |-> IF ~p.ok THEN "none"
                               ELSE IF l.ok THEN "ok" ELSE "failed",
                      move |-> IF ~moves THEN "none"
                               ELSE IF m.ok THEN "ok" ELSE "failed"]]
               /\ ld_counts' = IF p.ok /\ l.ok
                               THEN [ld_counts EXCEPT ![f] = Append(@, l.table.rows)]
                               ELSE ld_counts
               /\ ld_count' = IF good
                              THEN [ld_count EXCEPT !.successful = @ + 1]
                              ELSE [ld_count EXCEPT !.failed = @ + 1]
               /\ ld_files' = RestOfBatch(ld_files, good)
    /\ UNCHANGED <<ld_script, ld_content, ld_s3, ld_pc, ld_run, ld_exit>>
    /\ UNCHANGED othersLoader

\* One iteration of upload_all_csv_files: upload_file_to_s3, then (in
\* csv-to-s3.py) move the local file if the upload succeeded.
LoaderUploadFile ==
    /\ ld_pc = "loop" /\ ld_files # <<>>
    /\ ld_script \in Uploaders
    /\ LET f == Head(ld_files) IN
         \E uploaded \in BOOLEAN, mo \in MoveOutcomes :
            LET moves == ld_script = CSVS3 /\ MoveAfterSuccess(uploaded)
                m == IF moves
                     THEN move_file_to_imported(ld_source, ld_imported, f, mo)
                     ELSE [source |-> ld_source, imported |-> ld_imported,
                           ok |-> FALSE]
                good == FileSucceeded(ld_script, uploaded, m.ok)
            IN /\ ld_s3' = IF uploaded THEN ld_s3 \cup {f} ELSE ld_s3
               /\ ld_source' = m.source
               /\ ld_imported' = m.imported
               /\ ld_last' = [ld_last EXCEPT ![f] =
                     [run |-> ld_run,
                      load |-> IF uploaded THEN "ok" ELSE "failed",
                      move |-> IF ~moves THEN "none"
                               ELSE IF m.ok THEN "ok" ELSE "failed"]]
               /\ ld_count' = IF good
                              THEN [ld_count EXCEPT !.successful = @ + 1]
                              ELSE [ld_count EXCEPT !.failed = @ + 1]
               /\ ld_files' = RestOfBatch(ld_files, good)
    /\ UNCHANGED <<ld_script, ld_content, ld_tables, ld_pc, ld_run, ld_counts,
                   ld_exit>>
    /\ UNCHANGED othersLoader

\* The tables after a run of CSV-RDS/s3-to-rds.py that imports every
\* staged file of `files` (in the order of the listing).
RECURSIVE ImportStaged(_, _)
ImportStaged(files, tables) ==
    IF files = <<>> THEN tables
    ELSE LET f == Head(files)
             n == table_name(CSVRDS_S3, f)
             p == Prepare(CSVRDS_S3, tables[n], ld_content[f], "ok")
             l == load_csv_to_mysql(p.table, ld_content[f], ExtraCols(CSVRDS_S3),
                                    "ok")
         IN ImportStaged(Tail(files), [tables EXCEPT ![n] = l.table])

\* cleanup_source_files: move_file_to_imported for each file of `files`,
\* with outcome[f] the outcome of the move of f.
RECURSIVE MoveAll(_, _, _, _)
MoveAll(files, source, imported, outcome) ==
    IF files = <<>> THEN [source |-> source, imported |-> imported]
    ELSE LET m == move_file_to_imported(source, imported, Head(files),
                                        outcome[Head(files)])
         IN MoveAll(Tail(files), m.source, m.imported, outcome)

\* Steps 2 and 3 of run_full_pipeline in csv-to-rds-via-s3.py, reached when
\* upload_all_csv_files returned True: s3-to-rds.py is run as a subprocess
\* and either imports every staged file and moves it out of the staging
\* prefix (return code 0) or fails before importing (return code 1, the
\* pipeline exits 1); after a successful import cleanup_source_files moves
\* the local files, and the pipeline exits 0 whatever the moves do.
LoaderImportAndCleanup ==
    /\ ld_pc = "loop" /\ ld_files = <<>>
    /\ ld_script = VIAS3
    /\ ld_count.failed = 0
    /\ \E returncode \in {0, 1} :
         IF returncode # 0
         THEN /\ ld_exit' = Exited(1)
              /\ UNCHANGED <<ld_source, ld_imported, ld_tables, ld_s3, ld_last>>
         ELSE LET staged == {f \in ld_s3 : IsListed(CSVRDS_S3, f)}
                  local == {f \in ld_source : IsListed(VIAS3, f)}
              IN \E outcome \in [local -> MoveOutcomes] :
                   \E order \in ListOrders(VIAS3, local) :
                     LET m == MoveAll(order, ld_source, ld_imported, outcome) IN
                       /\ ld_tables' =
                            ImportStaged(CHOOSE q \in ListOrders(CSVRDS_S3, staged) :
                                             TRUE, ld_tables)
                       /\ ld_s3' = ld_s3 \ staged
                       /\ ld_source' = m.source
                       /\ ld_imported' = m.imported
                       /\ ld_last' = [f \in Files |->
                            IF f \in local
                            THEN [run |-> ld_run,
                                  load |-> IF ld_last[f].run = ld_run
                                           THEN ld_last[f].load ELSE "none",
                                  move |-> IF outcome[f] = "ok" THEN "ok"
                                           ELSE "failed"]
                            ELSE ld_last[f]]
                       /\ ld_exit' = Exited(0)
    /\ ld_pc' = "exit"
    /\ UNCHANGED <<ld_script, ld_content, ld_files, ld_count, ld_run, ld_counts>>
    /\ UNCHANGED othersLoader

\* The summary after the loop and the end of main.  csv-to-rds-via-s3.py
\* ends here only when upload_all_csv_files returned False.
LoaderFinish ==
    /\ ld_pc = "loop" /\ ld_files = <<>>
    /\ ld_script = VIAS3 => ld_count.failed > 0
    /\ ld_pc' = "exit"
    /\ ld_exit' = Exited(LoaderExitCode(ld_script, ld_count.failed))
    /\ UNCHANGED <<ld_script, ld_source, ld_imported, ld_content, ld_tables,
                   ld_s3, ld_files, ld_count, ld_run, ld_last, ld_counts>>
    /\ UNCHANGED othersLoader

\* The script is run again ("repeating the pipeline").
LoaderRerun ==
    /\ ld_pc = "exit"
    /\ ld_run < MaxRuns
    /\ ld_run' = ld_run + 1
    /\ ld_pc' = "main"
    /\ ld_exit' = Running
    /\ ld_count' = [successful |-> 0, failed |-> 0]
    /\ UNCHANGED <<ld_script, ld_source, ld_imported, ld_content, ld_tables,
                   ld_s3, ld_files, ld_last, ld_counts>>
    /\ UNCHANGED othersLoader

\* Another program puts a CSV file into the source folder while
\* csv-to-rds-via-s3.py runs.
LoaderFileAdded ==
    /\ ld_script = VIAS3
    /\ ld_pc \in {"main", "loop"}
    /\ \E f \in Files \ (ld_source \cup ld_imported) :
         ld_source' = ld_source \cup {f}
    /\ UNCHANGED <<ld_script, ld_imported, ld_content, ld_tables, ld_s3, ld_pc,
                   ld_files, ld_count, ld_run, ld_last, ld_counts, ld_exit>>
    /\ UNCHANGED othersLoader

\* csv-to-rds-via-s3.py with other programs that write to its source
\* folder.
InitSharedFolderVars ==
    /\ ld_script = VIAS3
    /\ ld_source \in SUBSET Files
    /\ ld_imported = {}
    /\ ld_content = [f \in Files |-> FileContent(f)]
    /\ ld_tables \in {[n \in LoaderTableNames |-> AbsentTable],
                      [n \in LoaderTableNames |-> OldTable]}
    /\ ld_s3 = {}
    /\ ld_pc = "main"
    /\ ld_files = <<>>
    /\ ld_count = [successful |-> 0, failed |-> 0]
    /\ ld_run = 1
    /\ ld_last = [f \in Files |-> NoSteps]
    /\ ld_counts = [f \in Files |-> <<>>]
    /\ ld_exit = Running

NextSharedFolder ==
    \/ LoaderConnectFail
    \/ LoaderList
    \/ LoaderUploadFile
    \/ LoaderImportAndCleanup
    \/ LoaderFinish
    \/ LoaderRerun
    \/ LoaderFileAdded

NextLoader ==
    \/ LoaderConnectFail
    \/ LoaderList
    \/ LoaderProcessFile
    \/ LoaderUploadFile
    \/ LoaderImportAndCleanup
    \/ LoaderFinish
    \/ LoaderRerun

\* ---- Claims about the file loaders -------------------------------------

\* The file is among the listed files still to be transferred.
ToBeTransferred(f) == \E i \in DOMAIN ld_files : ld_files[i] = f

\* C3: once the move of a file has returned success, the file is at the
\* imported location and not at the source, and no later run of the script
\* lists it for transfer again.
C3_MovedFileStaysMoved ==
    \A f \in Files :
        ld_last[f].move = "ok" =>
            /\ f \in ld_imported
            /\ f \notin ld_source
            /\ ~ToBeTransferred(f)

\* A file was moved with success and the script has been run again to its
\* end, with another file still transferred in that second run.
C3_Witness ==
    /\ ld_run = 2 /\ ld_pc = "exit"
    /\ \E f, g \in Files :
          /\ ld_last[f].run = 1 /\ ld_last[f].move = "ok"
          /\ ld_last[g].run = 2

\* C4: a file has left its source, or its move has been attempted, only if
\* the load or upload of that same file returned success; a file whose load
\* or upload failed is still at the source.
C4_MoveOnlyAfterSuccess ==
    \A f \in Files :
        /\ (f \notin ld_source \/ ld_last[f].move # "none")
              => ld_last[f].load = "ok"
        /\ ld_last[f].load = "failed" => f \in ld_source

\* In one run of s3_to_rds.py or csv-to-s3.py one file was loaded and
\* moved, and the load of another failed.
C4_Witness ==
    /\ ld_script \in {S3RDS, CSVS3}
    /\ \E f, g \in Files :
          /\ ld_last[f].load = "ok" /\ f \notin ld_source
          /\ ld_last[g].load = "failed" /\ g \in ld_source

\* C6: every successful load of a file after its first leaves the table
\* with the same number of rows as the load before it.
C6_ReplaceLoadIdempotent ==
    \A f \in Files :
        \A i \in 2..Len(ld_counts[f]) : ld_counts[f][i] = ld_counts[f][i - 1]

\* A file with data rows was loaded twice by a table loader.
C6_Witness ==
    \E f \in Files :
        /\ Len(ld_counts[f]) >= 2
        /\ ld_counts[f][1] > 0
        /\ ld_script \in TableLoaders

\* File f was loaded with success in the run that has just ended.
LoadedInThisRun(f) == ld_last[f].run = ld_run /\ ld_last[f].load = "ok"
\* Table <name> has the rows and the columns of file f.
TableHoldsFile(f) ==
    ld_tables[splitext(f)] =
        [exists |-> TRUE, rows |-> ld_content[f].rows, cols |-> ld_content[f].cols]
\* Another file of the run was loaded into the table of f.
SameTableLoaded(f) ==
    \E g \in Files \ {f} :
        /\ ld_last[g].run = ld_run /\ ld_last[g].load # "none"
        /\ table_name(ld_script, g) = table_name(ld_script, f)

\* C8 as stated: after a run of csv-to-rds.py in which the load of a file
\* succeeded, the table named after the file has the file's rows and
\* columns and the file is no longer in the source folder.
C8_Original ==
    (ld_script = CSVRDS /\ ld_pc = "exit") =>
        \A f \in Files :
            LoadedInThisRun(f) => (TableHoldsFile(f) /\ f \notin ld_source)

\* C8 (amended): the same, for a file whose load and move both succeeded
\* (process_csv_file returned True) and whose table no other file of the
\* run was loaded into.
C8_LoadedAndMoved ==
    (ld_script = CSVRDS /\ ld_pc = "exit") =>
        \A f \in Files :
            (LoadedInThisRun(f) /\ ld_last[f].move = "ok" /\ ~SameTableLoaded(f))
                => (TableHoldsFile(f) /\ f \notin ld_source)

\* csv-to-rds.py has ended its first run, in which a file with 3 rows and
\* 2 columns was loaded and moved and the table is the only one loaded
\* from it, and in which other files were loaded too.
C8_Witness ==
    /\ ld_script = CSVRDS /\ ld_pc = "exit" /\ ld_run = 1
    /\ \E f \in Files :
          /\ LoadedInThisRun(f) /\ ld_last[f].move = "ok" /\ ~SameTableLoaded(f)
          /\ ld_content[f] = [rows |-> 3, cols |-> 2]
          /\ TableHoldsFile(f)
          /\ \E g \in Files \ {f} : LoadedInThisRun(g)

LoadFailsAfterCreate ==
    /\ ld_script = CSVRDS_S3
    /\ ld_pc = "loop" /\ ld_files # <<>>
    /\ ld_last'[Head(ld_files)] =
          [run |-> ld_run, load |-> "failed", move |-> "none"]
    /\ ld_count' # ld_count

\* C22: when create_table_from_csv_structure succeeds for a file and the
\* load that follows fails, the table of the file is left existing and
\* empty (its previous rows are lost), every other table keeps its
\* contents, the file stays at the source and the batch goes on with the
\* next file.
C22_FailedLoadLeavesEmptyTable ==
    [][LoadFailsAfterCreate =>
          LET n == table_name(ld_script, Head(ld_files)) IN
          /\ ld_tables'[n].exists /\ ld_tables'[n].rows = 0
          /\ \A m \in LoaderTableNames \ {n} : ld_tables'[m] = ld_tables[m]
          /\ ld_source' = ld_source
          /\ ld_count'.failed = ld_count.failed + 1
          /\ ld_files' = Tail(ld_files) /\ ld_pc' = "loop"]_vars

\* A batch of CSV-RDS/s3-to-rds.py over tables with old rows has ended:
\* the load of one file failed after its table was created again and the
\* table is empty; the batch went on to a file listed after it, whose
\* table could not be created again and still has its old rows.
C22_Witness ==
    /\ ld_script = CSVRDS_S3 /\ ld_pc = "exit" /\ ld_run = 1
    /\ \E f, h \in Files :
          /\ table_name(ld_script, f) # table_name(ld_script, h)
          /\ ld_last[f] = [run |-> 1, load |-> "failed", move |-> "none"]
          /\ ld_tables[table_name(ld_script, f)].exists
          /\ ld_tables[table_name(ld_script, f)].rows = 0
          /\ Before(f, h)
          /\ ld_last[h] = [run |-> 1, load |-> "none", move |-> "none"]
          /\ ld_tables[table_name(ld_script, h)] = OldTable

\* C26 as stated: every local file that csv-to-rds-via-s3.py has moved to
\* the imported folder was uploaded to S3 with success, and so imported,
\* in the run that moved it, also when other programs add files to the
\* source folder while the pipeline runs.
C26_Original ==
    ld_script = VIAS3 =>
        \A f \in Files : ld_last[f].move = "ok" => ld_last[f].load = "ok"

\* The upload of f was attempted in the current run, and it failed.
UploadAttempted(f) == ld_last[f].run = ld_run /\ ld_last[f].load # "none"
UploadFailed(f) == UploadAttempted(f) /\ ld_last[f].load = "failed"

\* During and after the loop of upload_all_csv_files every discovered file
\* is either still to be uploaded or has had its attempt, never both;
\* failed_uploads is the number of files whose attempt failed; and a run
\* that ends with failed_uploads > 0 exits 1.
UploadsAccounted ==
    ld_script \in Uploaders =>
        /\ ld_pc = "loop" =>
              \A f \in Files :
                 /\ ToBeTransferred(f) => ~UploadAttempted(f)
                 /\ (f \in ld_source /\ IsListed(ld_script, f)) =>
                        (ToBeTransferred(f) \/ UploadAttempted(f))
        /\ ld_pc \in {"loop", "exit"} =>
              ld_count.failed = Cardinality({f \in Files : UploadFailed(f)})
        /\ (ld_pc = "exit" /\ ld_count.failed > 0) => ld_exit = Exited(1)

\* One iteration of the loop makes the one attempt of the first file to be
\* uploaded and passes on to the next whatever the outcome: a failed
\* upload adds 1 to failed_uploads, puts nothing in the bucket and leaves
\* the file out of the files still to be uploaded.
UploadStep ==
    (ld_script \in Uploaders /\ ld_pc = "loop" /\ ld_files # <<>>) =>
        LET f == Head(ld_files) IN
          /\ ld_last'[f].run = ld_run
          /\ ld_last'[f].load \in {"ok", "failed"}
          /\ ld_files' = Tail(ld_files)
          /\ \A i \in DOMAIN ld_files' : ld_files'[i] # f
          /\ ld_last'[f].load = "failed" =>
                /\ ld_count'.failed = ld_count.failed + 1
                /\ ld_s3' = ld_s3
                /\ ld_source' = ld_source
          /\ ld_last'[f].load = "ok" =>
                /\ ld_count' = [ld_count EXCEPT !.successful = @ + 1]
                /\ ld_s3' = ld_s3 \cup {f}

\* C15: within one run of the uploader (csv-to-s3.py,
\* csv-to-rds-via-s3.py) the upload of each discovered file is attempted
\* exactly once; a failed upload is counted in failed_uploads and not
\* retried, and the run fails (exit code 1) whenever failed_uploads > 0.
C15_EachUploadOnce == []UploadsAccounted /\ [][UploadStep]_vars

\* A run of an uploader has ended with exit code 1 after one failed upload:
\* the two other files are in the bucket, the failed one is not.
C15_Witness ==
    /\ ld_script \in Uploaders
    /\ ld_pc = "exit" /\ ld_exit = Exited(1) /\ ld_run = 1
    /\ ld_count = [successful |-> 2, failed |-> 1]
    /\ \E f \in Files :
          /\ UploadFailed(f) /\ f \in ld_source /\ f \notin ld_s3
          /\ ld_s3 = Files \ {f}

\* C10 as stated, for the loader scripts: a run in which the import or
\* upload of a file failed ends with exit code 1.
C10_Original ==
    (ld_pc = "exit" /\ ld_count.failed > 0) => ld_exit = Exited(1)

\* ======================================================================
\* The table name of a file name, in each loader
\* ======================================================================

\* Characters of the stem of a file name.
NameChars == {"a", "B", "1", "-", " ", "_", "."}
\* File names <stem>.csv with a stem of 1..MaxStem characters.
NameSamples ==
    {stem \o Csv : stem \in UNION {[1..n -> NameChars] : n \in 1..MaxStem}}

InitNameVars ==
    /\ nm_file \in NameSamples
    /\ nm_loader = None
    /\ nm_table = <<>>

\* process_s3_file / process_csv_file derive the table name of the file.
DeriveTableName ==
    /\ nm_loader = None
    /\ \E script \in TableLoaders :
          /\ nm_loader' = script
          /\ nm_table' = table_name(script, nm_file)
    /\ UNCHANGED nm_file
    /\ UNCHANGED othersName

NextName == DeriveTableName

\* The file name with the extension stripped, the separators replaced by
\* underscores, and lower-cased.
NormalizedStem(filename) ==
    LowerStr(ReplaceSeparators(SubSeq(filename, 1, Len(filename) - Len(Csv))))

\* C7 as stated: the table name a loader derives from a file name ending
\* in .csv is the name with the extension stripped, the separators replaced
\* by underscores, and lower-cased.
C7_Original ==
    nm_loader # None => nm_table = NormalizedStem(nm_file)

\* ======================================================================
\* The orchestrators (main.py, CSV-RDS/main.py)
\* ======================================================================

MAIN == "main.py"
CSVRDS_MAIN == "CSV-RDS/main.py"

\* The stages of the full pipeline, in the order of main().
Stages(script) ==
    IF script = MAIN THEN <<"setup", "csv", "s3", "bq">>
    ELSE <<"setup", "s3", "csv">>

\* The script that run_script starts for a stage of the full pipeline.
StageScript(script, stage, use_meltano) ==
    IF script = MAIN
    THEN CASE stage = "setup" -> "bec-aws-bq/setup-database.py"
           [] stage = "csv" -> "bec-aws-bq/csv-to-s3.py"
           [] stage = "s3" -> "bec-aws-bq/s3-to-rds.py"
           [] OTHER -> IF use_meltano THEN "bec-meltano/rds-to-bq-meltano.py"
                       ELSE "bec-aws-bq/s3-to-rds.py"
    ELSE CASE stage = "setup" -> "setup-database.py"
           [] stage = "s3" -> "s3-to-rds.py"
           [] OTHER -> "csv-to-rds-via-s3.py"

\* The script that main.py --stage <stage> starts.
SingleStageScript(stage, use_meltano) ==
    CASE stage = "csv-s3" -> "bec-aws-bq/csv-to-s3.py"
      [] stage = "s3-rds" -> "bec-aws-bq/s3-to-rds.py"
      [] OTHER -> IF use_meltano THEN "bec-meltano/rds-to-bq-meltano.py"
                  ELSE "bec-aws-bq/rds-bq.py"

\* The scripts of the full pipeline, in order.
PipelineScripts(script, use_meltano) ==
    [i \in DOMAIN Stages(script) |->
        StageScript(script, Stages(script)[i], use_meltano)]

\* run_script: True iff the subprocess returned 0 (an exception of
\* subprocess.run gives False).
run_script(returncode, raises) == ~raises /\ returncode = 0

\* `if not setup_success: sys.exit(1)`: only a failed database setup stops
\* the pipeline; after any other stage main() goes on.
StopsOnAnyFailure(stage, success) == ~success
StopsPipeline(stage, success) == stage = "setup" /\ ~success

\* An exit code that is 0 only when every stage has passed.
ExitCodeOfAllStages(script, success) ==
    IF \A st \in {Stages(script)[i] : i \in DOMAIN Stages(script)} :
           success[st] = "passed"
    THEN 0 ELSE 1
\* The value main() returns after the summary.
PipelineExitCode(script, success) ==
    IF script = MAIN
    THEN LET data_imported == success["csv"] = "passed" \/ success["s3"] = "passed"
             bq_success == success["bq"] = "passed"
         IN IF data_imported /\ bq_success THEN 0
            ELSE IF data_imported THEN 1
            ELSE IF bq_success THEN 0
            ELSE 1
    ELSE IF success["s3"] = "passed" /\ success["csv"] = "passed" THEN 0
         ELSE IF success["csv"] = "passed" THEN 0
         ELSE 1

StageNames == {"setup", "csv", "s3", "bq"}
NoStageRun == [st \in StageNames |-> "none"]

InitOrchestratorVars ==
    /\ or_script \in {MAIN, CSVRDS_MAIN}
    /\ or_args \in [stage : {None, "csv-s3", "s3-rds", "rds-bq"},
                    check_connections : BOOLEAN]
    /\ or_script = CSVRDS_MAIN =>
          or_args = [stage |-> None, check_connections |-> FALSE]
    /\ or_env \in [vars_set : BOOLEAN, scripts_exist : BOOLEAN,
                   use_meltano : BOOLEAN]
    /\ or_pc = "start"
    /\ or_stage = 1
    /\ or_success = NoStageRun
    /\ or_log = <<>>
    /\ or_running = {}
    /\ or_summary = FALSE
    /\ or_exit = Running

IdleOrchestrator ==
    /\ or_script = None
    /\ or_args = [stage |-> None, check_connections |-> FALSE]
    /\ or_env = [vars_set |-> FALSE, scripts_exist |-> FALSE,
                 use_meltano |-> FALSE]
    /\ or_pc = "idle"
    /\ or_stage = 0
    /\ or_success = NoStageRun
    /\ or_log = <<>>
    /\ or_running = {}
    /\ or_summary = FALSE
    /\ or_exit = Running

OrchestratorExit(code) ==
    /\ or_pc' = "exit"
    /\ or_exit' = Exited(code)

\* main.py --check-connections: exit code 0 without running anything.
OrchestratorCheckConnections ==
    /\ or_pc = "start"
    /\ or_script = MAIN /\ or_args.check_connections
    /\ OrchestratorExit(0)
    /\ UNCHANGED <<or_script, or_args, or_env, or_stage, or_success, or_log,
                   or_running, or_summary>>
    /\ UNCHANGED othersOrchestrator

\* main.py --stage <stage>: one script, exit code 0 or 1 by its result.
OrchestratorSingleStage ==
    /\ or_pc = "start"
    /\ or_script = MAIN /\ ~or_args.check_connections /\ or_args.stage # None
    /\ \E returncode \in {0, 1}, raises \in BOOLEAN :
          OrchestratorExit(IF run_script(returncode, raises) THEN 0 ELSE 1)
    /\ or_log' = <<SingleStageScript(or_args.stage, or_env.use_meltano)>>
    /\ UNCHANGED <<or_script, or_args, or_env, or_stage, or_success, or_running,
                   or_summary>>
    /\ UNCHANGED othersOrchestrator

\* main(): the checks before the first stage.  main.py checks the
\* environment variables and that the scripts exist, CSV-RDS/main.py only
\* the scripts; a failed check is sys.exit(1).
OrchestratorChecks ==
    /\ or_pc = "start"
    /\ or_script = MAIN => (~or_args.check_connections /\ or_args.stage = None)
    /\ IF (or_script = MAIN /\ ~or_env.vars_set) \/ ~or_env.scripts_exist
       THEN OrchestratorExit(1)
       ELSE or_pc' = "stages" /\ or_exit' = or_exit
    /\ UNCHANGED <<or_script, or_args, or_env, or_stage, or_success, or_log,
                   or_running, or_summary>>
    /\ UNCHANGED othersOrchestrator

\* subprocess.run: the call returns, and main() goes on, only when the
\* subprocess it started has exited.
ReturnsAtOnce(running) == TRUE
SubprocessReturned(running) == running = {}

\* `if not setup_success: sys.exit(1)` after the result of a stage;
\* otherwise main() goes on.
AfterStage(stage, success) ==
    /\ or_success' = [or_success EXCEPT ![stage] =
                        IF success THEN "passed" ELSE "failed"]
    /\ IF StopsPipeline(stage, success)
       THEN OrchestratorExit(1)
       ELSE or_pc' = or_pc /\ or_exit' = or_exit

\* main(): run_script of the next stage calls subprocess.run, which starts
\* the script as a subprocess; when it raises instead, no subprocess runs
\* and run_script returns False.
OrchestratorStartStage ==
    /\ or_pc = "stages"
    /\ or_stage <= Len(Stages(or_script))
    /\ SubprocessReturned(or_running)
    /\ LET stage == Stages(or_script)[or_stage] IN
         \E raises \in BOOLEAN :
            /\ or_log' = Append(or_log,
                            StageScript(or_script, stage, or_env.use_meltano))
            /\ IF raises
               THEN /\ or_running' = or_running
                    /\ AfterStage(stage, run_script(0, TRUE))
               ELSE /\ or_running' = or_running \cup {stage}
                    /\ UNCHANGED <<or_success, or_pc, or_exit>>
    /\ or_stage' = or_stage + 1
    /\ UNCHANGED <<or_script, or_args, or_env, or_summary>>
    /\ UNCHANGED othersOrchestrator

\* The subprocess of a stage exits; subprocess.run returns its return code
\* and run_script its result.  A failed database setup is sys.exit(1),
\* any other result goes on to the next stage.
OrchestratorStageEnds ==
    /\ or_pc = "stages"
    /\ \E stage \in or_running, returncode \in {0, 1} :
         /\ or_running' = or_running \ {stage}
         /\ AfterStage(stage, run_script(returncode, FALSE))
    /\ UNCHANGED <<or_script, or_args, or_env, or_stage, or_log, or_summary>>
    /\ UNCHANGED othersOrchestrator

\* main(): the final summary and the exit code.
OrchestratorSummary ==
    /\ or_pc = "stages"
    /\ or_stage > Len(Stages(or_script))
    /\ SubprocessReturned(or_running)
    /\ or_summary' = TRUE
    /\ OrchestratorExit(PipelineExitCode(or_script, or_success))
    /\ UNCHANGED <<or_script, or_args, or_env, or_stage, or_success, or_log,
                   or_running>>
    /\ UNCHANGED othersOrchestrator

\* KeyboardInterrupt while the orchestrator runs.  main.py catches it and
\* exits with 130; CSV-RDS/main.py does not catch it, and the interpreter
\* ends the process with the status of SIGINT (130) or with 1.
\* subprocess.run kills the subprocess it waits for before it re-raises.
OrchestratorInterrupt ==
    /\ or_pc \in {"start", "stages"}
    /\ \E code \in {1, 130} :
          /\ or_script = MAIN => code = 130
          /\ or_exit' = Exited(code)
    /\ or_pc' = "interrupted"
    /\ or_running' = {}
    /\ UNCHANGED <<or_script, or_args, or_env, or_stage, or_success, or_log,
                   or_summary>>
    /\ UNCHANGED othersOrchestrator

NextOrchestrator ==
    \/ OrchestratorCheckConnections
    \/ OrchestratorSingleStage
    \/ OrchestratorChecks
    \/ OrchestratorStartStage
    \/ OrchestratorStageEnds
    \/ OrchestratorSummary
    \/ OrchestratorInterrupt

\* ---- Claims about the orchestrators -------------------------------------

\* A run of the full pipeline that passed the checks before the first
\* stage and was not interrupted.
FullRun == or_log # <<>> /\ or_args.stage = None
\* The scripts run so far are the first scripts of the pipeline, in order.
RunInOrder ==
    /\ Len(or_log) <= Len(Stages(or_script))
    /\ or_log = SubSeq(PipelineScripts(or_script, or_env.use_meltano),
                       1, Len(or_log))
\* Every stage of the pipeline has run and the summary has been printed.
ReachedSummary ==
    /\ or_summary
    /\ or_log = PipelineScripts(or_script, or_env.use_meltano)

\* C9 as stated: the stages of a full run are run in the fixed order, and
\* whichever of them fails, a run that is not interrupted ends only after
\* every stage has run and the summary has been printed.
C9_Original ==
    FullRun => (RunInOrder /\ (or_pc = "exit" => ReachedSummary))

\* C9 (amended): the stages of a full run are run in the fixed order; once
\* the database setup has passed, a failed stage does not end the run: the
\* run ends only after every stage has run and the summary has been
\* printed, and unless it is interrupted it does get there.  A failed
\* database setup ends the run before the other stages and the summary.
C9_ContinuesAfterSetup ==
    /\ [](FullRun => RunInOrder)
    /\ []((FullRun /\ or_success["setup"] = "passed" /\ or_pc = "exit")
             => ReachedSummary)
    /\ []((FullRun /\ or_success["setup"] = "failed")
             => (or_pc = "exit" /\ or_exit = Exited(1) /\ ~or_summary
                 /\ Len(or_log) = 1))
    /\ (or_success["setup"] = "passed")
          ~> (ReachedSummary \/ or_pc = "interrupted")

\* A full run has printed its summary after every stage that followed the
\* database setup failed.
C9_Witness ==
    /\ ReachedSummary
    /\ \A st \in StageNames \ {"setup"} : or_success[st] # "passed"
    /\ or_exit = Exited(1)

\* A full run of main.py whose checks and database setup have passed and
\* whose process has ended.
EndedAfterSetup ==
    /\ or_script = MAIN /\ or_args.stage = None /\ ~or_args.check_connections
    /\ or_success["setup"] = "passed"
    /\ or_exit # Running
\* 0 when the RDS-to-BigQuery stage passed, 1 when it failed or did not run.
BigQueryExitCode == IF or_success["bq"] = "passed" THEN 0 ELSE 1

\* C28 as stated: such a run ends with exit code 0 exactly when the
\* RDS-to-BigQuery stage succeeded and with 1 otherwise, whatever the
\* results of the CSV-to-S3 and S3-to-RDS stages.
C28_Original == EndedAfterSetup => or_exit = Exited(BigQueryExitCode)

\* C28 (amended): such a run, unless it is interrupted, ends after the
\* summary with exit code 0 exactly when the RDS-to-BigQuery stage
\* succeeded and with 1 otherwise, whatever the results of the CSV-to-S3
\* and S3-to-RDS stages; a run interrupted by KeyboardInterrupt ends with
\* exit code 130, also after the RDS-to-BigQuery stage has succeeded.
C28_ExitFollowsBigQuery ==
    EndedAfterSetup =>
        IF or_pc = "interrupted"
        THEN or_exit = Exited(130)
        ELSE or_summary /\ or_exit = Exited(BigQueryExitCode)

\* A full run of main.py has ended with exit code 0 after both import
\* stages failed and the RDS-to-BigQuery stage passed.
C28_Witness ==
    /\ EndedAfterSetup /\ or_summary
    /\ or_success = [setup |-> "passed", csv |-> "failed", s3 |-> "failed",
                     bq |-> "passed"]
    /\ or_exit = Exited(0)

\* The stages of the pipeline before stage number i.
StagesBefore(i) == {Stages(or_script)[j] : j \in 1..(i - 1)}

\* C24: at no time are the subprocesses of two stages running, and the
\* subprocess of a stage is started only when no subprocess is running
\* and the result of every stage before it has been read.
C24_OneStageAtATime ==
    /\ [](Cardinality(or_running) <= 1)
    /\ [][\A st \in StageNames :
            (st \notin or_running /\ st \in or_running') =>
                /\ or_running = {}
                /\ st = Stages(or_script)[or_stage]
                /\ \A b \in StagesBefore(or_stage) : or_success[b] # "none"]_vars

\* The subprocess of the last stage of main.py is running; the stages
\* before it have all run and their results have been read.
C24_Witness ==
    /\ or_script = MAIN
    /\ or_running = {"bq"}
    /\ or_log = PipelineScripts(MAIN, or_env.use_meltano)
    /\ \A b \in {"setup", "csv", "s3"} : or_success[b] # "none"
    /\ or_success["bq"] = "none"

\* ======================================================================
\* The calls that delete the rows of an RDS table after a load
\* ======================================================================

\* cleanup_rds_table (RDS-BQ/run-pipeline.py): does nothing unless
\* RDS_CLEANUP_AFTER_TRANSFER is set; DELETE and commit on the connection
\* of the pipeline, with no rollback when one of them raises.
cleanup_rds_table(rows_before, cleanup_enabled, raises) ==
    IF ~cleanup_enabled THEN DeleteResult(rows_before, FALSE, TRUE, FALSE, FALSE)
    ELSE IF raises = "count" THEN DeleteResult(rows_before, FALSE, FALSE, FALSE, FALSE)
    ELSE IF rows_before = 0 THEN DeleteResult(0, FALSE, TRUE, FALSE, FALSE)
    ELSE IF raises = "delete" THEN DeleteResult(rows_before, FALSE, FALSE, FALSE, FALSE)
    ELSE IF raises = "commit" THEN DeleteResult(rows_before, FALSE, FALSE, FALSE, TRUE)
    ELSE DeleteResult(0, TRUE, raises = "none", FALSE, FALSE)

DeleteFunctions == {"delete_rds_table_data", "truncate_rds_table", "cleanup_rds_table"}

InitDeleteVars ==
    /\ dl_function \in DeleteFunctions
    /\ dl_option \in BOOLEAN
    /\ dl_function = "delete_rds_table_data" => dl_option = FALSE
    /\ dl_before \in 0..MaxRows
    /\ dl_raises = "none"
    /\ dl_result = <<>>

IdleDelete ==
    /\ dl_function = None
    /\ dl_option = FALSE
    /\ dl_before = 0
    /\ dl_raises = "none"
    /\ dl_result = <<>>

\* The call of the function on a table with dl_before rows.
DeleteCall ==
    /\ dl_result = <<>>
    /\ \E raises \in DeleteFailures :
         /\ dl_raises' = raises
         /\ dl_result' =
              <<CASE dl_function = "delete_rds_table_data" ->
                       delete_rds_table_data(dl_before, raises)
                  [] dl_function = "truncate_rds_table" ->
                       truncate_rds_table(dl_before, dl_option, raises)
                  [] OTHER ->
                       cleanup_rds_table(dl_before, dl_option, raises)>>
    /\ UNCHANGED <<dl_function, dl_option, dl_before>>
    /\ UNCHANGED othersDelete

NextDelete == DeleteCall

\* ---- Claims about the delete calls ---------------------------------------

\* The call got as far as its delete statement: it is not a dry run, the
\* cleanup is enabled, the first count did not raise and found rows.
DeleteAttempted ==
    /\ dl_result # <<>>
    /\ dl_before > 0
    /\ dl_raises # "count"
    /\ dl_function = "truncate_rds_table" => ~dl_option
    /\ dl_function = "cleanup_rds_table" => dl_option

\* C13 as stated: in each of the three functions, when the delete statement
\* or its commit raises, the transaction is rolled back, the table holds
\* the rows it held before the call, and the call returns False.
C13_Original ==
    (DeleteAttempted /\ dl_raises \in {"delete", "commit"}) =>
        /\ dl_result[1].rolled_back
        /\ dl_result[1].rows = dl_before
        /\ ~dl_result[1].ok

\* C13 (amended): delete_rds_table_data rolls its transaction back when the
\* DELETE or the commit raises, and the table then holds the rows it held
\* before.  In all three functions a delete statement that raises leaves
\* the rows of the table, no rows are removed without a committed delete,
\* and every call in which the database raises returns False.
C13_RollbackInDeleteOnly ==
    /\ (DeleteAttempted /\ dl_function = "delete_rds_table_data"
          /\ dl_raises \in {"delete", "commit"})
         => (dl_result[1].rolled_back /\ ~dl_result[1].pending
             /\ dl_result[1].rows = dl_before)
    /\ (DeleteAttempted /\ dl_raises = "delete")
         => dl_result[1].rows = dl_before
    /\ dl_result # <<>> =>
         /\ dl_result[1].rows \in {0, dl_before}
         /\ dl_result[1].rows # dl_before => dl_result[1].ran
    /\ (DeleteAttempted /\ dl_raises # "none") => ~dl_result[1].ok

\* The DELETE of delete_rds_table_data raised on a table with rows and was
\* rolled back.
C13_Witness ==
    /\ DeleteAttempted
    /\ dl_function = "delete_rds_table_data"
    /\ dl_raises = "delete"
    /\ dl_before = MaxRows
    /\ dl_result[1] = DeleteResult(MaxRows, FALSE, FALSE, TRUE, FALSE)

\* ======================================================================
\* bec-meltano/rds-to-bq-meltano.py and bec-meltano/meltano-post-hook.py
\* ======================================================================

\* The subprocesses of a run.
MELTANO_RUN == "meltano run tap-mysql target-bigquery"
POST_HOOK == "python meltano-post-hook.py"
VERIFY_ONLY == "delete-rds-after-load.py --verify-only"
CLEANUP == "delete-rds-after-load.py"
\* Return codes of a subprocess.
ReturnCodes == {0, 1, 2}
NoCodes == [run |-> <<>>, verify |-> <<>>, cleanup |-> <<>>, hook |-> <<>>]

MeltanoArgs ==
    [dry_run : BOOLEAN, check_config : BOOLEAN, help : BOOLEAN,
     table : Tables \cup {None}]

\* run_elt_pipeline: `if result.returncode == 0:` before the post-hook.
RunsPostHookAlways(returncode) == TRUE
RunsPostHook(returncode) == returncode = 0

\* run_rds_cleanup: `if verify_result.returncode != 0: return False`
\* before the cleanup subprocess.
StartsCleanupAlways(returncode) == TRUE
StartsCleanup(returncode) == returncode = 0

InitMeltanoVars ==
    /\ ml_args \in MeltanoArgs
    /\ ml_pc = "main"
    /\ ml_started = <<>>
    /\ ml_codes = NoCodes
    /\ ml_exit = Running

IdleMeltano ==
    /\ ml_args = [dry_run |-> FALSE, check_config |-> FALSE, help |-> FALSE,
                  table |-> None]
    /\ ml_pc = "idle"
    /\ ml_started = <<>>
    /\ ml_codes = NoCodes
    /\ ml_exit = Running

\* sys.exit of the runner.
MeltanoExit(code) ==
    /\ ml_pc' = "exit"
    /\ ml_exit' = Exited(code)

\* main up to run_elt_pipeline: --help prints the usage, --check-config
\* exits with the result of check_configuration.
MeltanoMain ==
    /\ ml_pc = "main"
    /\ IF ml_args.help THEN MeltanoExit(0)
       ELSE IF ml_args.check_config
       THEN \E success \in BOOLEAN : MeltanoExit(IF success THEN 0 ELSE 1)
       ELSE /\ ml_pc' = "pipeline"
            /\ ml_exit' = ml_exit
    /\ UNCHANGED <<ml_args, ml_started, ml_codes>>
    /\ UNCHANGED othersMeltano

\* run_elt_pipeline up to the start of `meltano run`: the two checks, and
\* the return of a dry run.
MeltanoStartRun ==
    /\ ml_pc = "pipeline"
    /\ \E environment_ok \in BOOLEAN, configuration_ok \in BOOLEAN :
         IF ~environment_ok \/ ~configuration_ok
         THEN MeltanoExit(1) /\ UNCHANGED ml_started
         ELSE IF ml_args.dry_run
         THEN MeltanoExit(0) /\ UNCHANGED ml_started
         ELSE /\ ml_started' = Append(ml_started, MELTANO_RUN)
              /\ ml_pc' = "run"
              /\ ml_exit' = ml_exit
    /\ UNCHANGED <<ml_args, ml_codes>>
    /\ UNCHANGED othersMeltano

\* `meltano run` ends (or subprocess.run raises): on return code 0
\* run_post_hook_cleanup starts meltano-post-hook.py, if the script exists;
\* otherwise run_elt_pipeline returns False.
MeltanoRunEnds ==
    /\ ml_pc = "run"
    /\ \E raises \in BOOLEAN, returncode \in ReturnCodes, script_exists \in BOOLEAN :
         IF raises
         THEN MeltanoExit(1) /\ UNCHANGED <<ml_started, ml_codes>>
         ELSE /\ ml_codes' = [ml_codes EXCEPT !.run = <<returncode>>]
              /\ IF RunsPostHook(returncode) /\ script_exists
                 THEN /\ ml_started' = Append(ml_started, POST_HOOK)
                      /\ ml_pc' = "hook"
                      /\ ml_exit' = ml_exit
                 ELSE MeltanoExit(1) /\ UNCHANGED ml_started
    /\ UNCHANGED ml_args
    /\ UNCHANGED othersMeltano

\* The post-hook exits with `code`, and the runner with it:
\* run_post_hook_cleanup returns returncode == 0.
HookExit(code) ==
    /\ ml_codes' = [ml_codes EXCEPT !.hook = <<code>>]
    /\ MeltanoExit(IF code = 0 THEN 0 ELSE 1)

\* run_rds_cleanup up to the start of the verification: the cleanup
\* script must exist.
HookStartVerify ==
    /\ ml_pc = "hook"
    /\ \E script_exists \in BOOLEAN, raises \in BOOLEAN :
         IF ~script_exists \/ raises
         THEN HookExit(1) /\ UNCHANGED ml_started
         ELSE /\ ml_started' = Append(ml_started, VERIFY_ONLY)
              /\ ml_pc' = "verify"
              /\ UNCHANGED <<ml_codes, ml_exit>>
    /\ UNCHANGED ml_args
    /\ UNCHANGED othersMeltano

\* The --verify-only pass ends: on return code 0 the cleanup is started,
\* otherwise run_rds_cleanup returns False.
HookVerifyEnds ==
    /\ ml_pc = "verify"
    /\ \E returncode \in ReturnCodes, raises \in BOOLEAN :
         IF StartsCleanup(returncode) /\ ~raises
         THEN /\ ml_codes' = [ml_codes EXCEPT !.verify = <<returncode>>]
              /\ ml_started' = Append(ml_started, CLEANUP)
              /\ ml_pc' = "cleanup"
              /\ ml_exit' = ml_exit
         ELSE /\ ml_codes' = [ml_codes EXCEPT !.verify = <<returncode>>,
                                              !.hook = <<1>>]
              /\ MeltanoExit(1)
              /\ UNCHANGED ml_started
    /\ UNCHANGED ml_args
    /\ UNCHANGED othersMeltano

\* The cleanup ends: run_rds_cleanup returns returncode == 0.
HookCleanupEnds ==
    /\ ml_pc = "cleanup"
    /\ \E returncode \in ReturnCodes :
         /\ ml_codes' = [ml_codes EXCEPT !.cleanup = <<returncode>>,
                              !.hook = <<IF returncode = 0 THEN 0 ELSE 1>>]
         /\ MeltanoExit(IF returncode = 0 THEN 0 ELSE 1)
    /\ UNCHANGED <<ml_args, ml_started>>
    /\ UNCHANGED othersMeltano

\* The post-hook has not ended after 300 seconds: subprocess.run kills it
\* and run_post_hook_cleanup returns False.
HookTimeout ==
    /\ ml_pc \in {"hook", "verify", "cleanup"}
    /\ MeltanoExit(1)
    /\ UNCHANGED <<ml_args, ml_started, ml_codes>>
    /\ UNCHANGED othersMeltano

NextMeltano ==
    \/ MeltanoMain
    \/ MeltanoStartRun
    \/ MeltanoRunEnds
    \/ HookStartVerify
    \/ HookVerifyEnds
    \/ HookCleanupEnds
    \/ HookTimeout

\* ---- Claims about the Meltano runner -------------------------------------

Started(command) == \E i \in DOMAIN ml_started : ml_started[i] = command
\* The subprocess has ended with a return code other than 0.
EndedNonZero(code) == code # <<>> /\ code # <<0>>

\* C19: the cleanup subprocess is started only after `meltano run` has
\* exited with 0 and then the --verify-only pass of the cleanup script has
\* exited with 0; when either has ended with another code the cleanup is
\* never started and the runner reports failure (exit code 1).
C19_CleanupOnlyAfterVerifiedRun ==
    /\ Started(CLEANUP) =>
          /\ ml_codes.run = <<0>>
          /\ ml_codes.verify = <<0>>
          /\ ml_started = <<MELTANO_RUN, POST_HOOK, VERIFY_ONLY, CLEANUP>>
    /\ (EndedNonZero(ml_codes.run) \/ EndedNonZero(ml_codes.verify)) =>
          /\ ~Started(CLEANUP)
          /\ ml_pc = "exit"
          /\ ml_exit = Exited(1)

\* A run in which `meltano run` and the verification both returned 0: the
\* cleanup was started last, has returned 0, and the runner has exited
\* with 0.
C19_Witness ==
    /\ ml_started = <<MELTANO_RUN, POST_HOOK, VERIFY_ONLY, CLEANUP>>
    /\ ml_codes = [run |-> <<0>>, verify |-> <<0>>, cleanup |-> <<0>>,
                   hook |-> <<0>>]
    /\ ml_pc = "exit" /\ ml_exit = Exited(0)

\* ======================================================================
\* bec-dagster/dagster_pipeline.py
\* ======================================================================

\* The assets, named by the prefix of their function names
\* (_2a for _2a_processing_stg_orders, and so on).
Extraction == {"_1"}
Staging == {"_2a", "_2b", "_2c", "_2d", "_2e", "_2f", "_2g", "_2h", "_2i"}
Warehouse == {"_3a", "_3b", "_3c", "_3d", "_3e", "_3f", "_3g", "_3h", "_3i"}
Analytics == {"_4a", "_4b", "_4c", "_4d", "_4e", "_4f", "_4g"}
Summary == {"_5"}
Assets == Extraction \cup Staging \cup Warehouse \cup Analytics \cup Summary

\* A graph in which every asset but the first depends on the first only.
DepsOnExtractionOnly(a) == IF a \in Extraction THEN {} ELSE {"_1"}
\* The deps= of each @asset.
Deps(a) ==
    CASE a \in Extraction -> {}
      [] a \in Staging -> {"_1"}
      [] a = "_3a" -> {"_2a", "_2b", "_2g", "_2e", "_2d"}
      [] a = "_3b" -> {"_2c", "_2i"}
      [] a = "_3c" -> {"_2d"}
      [] a = "_3d" -> {"_2e"}
      [] a = "_3e" -> {"_2f"}
      [] a = "_3f" -> {"_2g"}
      [] a = "_3g" -> {"_2h"}
      [] a = "_3h" -> {"_1"}
      [] a = "_3i" -> {"_2b", "_3a", "_3b", "_3c", "_3d", "_3e", "_3f", "_3g", "_3h"}
      [] a \in {"_4a", "_4b"} -> {"_3i"}
      [] a \in Analytics -> {"_3i", "_4a"}
      [] OTHER -> Assets \ Summary

\* The order in which the steps of a run are taken: that of the assets in
\* Definitions, which lists every asset after its dependencies.
ExecutionOrder ==
    <<"_1", "_2a", "_2b", "_2c", "_2d", "_2e", "_2f", "_2g", "_2h", "_2i",
      "_3a", "_3b", "_3c", "_3d", "_3e", "_3f", "_3g", "_3h", "_3i",
      "_4a", "_4b", "_4c", "_4d", "_4e", "_4f", "_4g", "_5">>

\* What the function of an asset does when its work (the transfer, the
\* dbt run) fails.  The staging and warehouse functions raise; the
\* extraction and analytics functions catch the failure and return a
\* result that reports it ("status": "failed").
StepOutcome(a, work_fails) ==
    IF ~work_fails THEN "success"
    ELSE IF a \in Staging \cup Warehouse \cup Summary THEN "raised"
    ELSE "returned_failed"

\* The step of the asset has produced a result for its downstream assets.
Materialized(status) == status \in {"success", "returned_failed"}

InitDagsterVars ==
    /\ dg_status = [a \in Assets |-> "pending"]
    /\ dg_next = 1

IdleDagster ==
    /\ dg_status = [a \in Assets |-> "idle"]
    /\ dg_next = 0

\* The step of the next asset is executed: all the assets it depends on
\* have been materialized in the run.
DagsterExecute ==
    /\ dg_next \in DOMAIN ExecutionOrder
    /\ LET a == ExecutionOrder[dg_next] IN
         /\ \A d \in Deps(a) : Materialized(dg_status[d])
         /\ \E work_fails \in BOOLEAN :
              dg_status' = [dg_status EXCEPT ![a] = StepOutcome(a, work_fails)]
    /\ dg_next' = dg_next + 1
    /\ UNCHANGED othersDagster

\* The step of the next asset is not executed: the step of an asset it
\* depends on has failed or was itself not executed.
DagsterSkip ==
    /\ dg_next \in DOMAIN ExecutionOrder
    /\ LET a == ExecutionOrder[dg_next] IN
         /\ \E d \in Deps(a) : ~Materialized(dg_status[d])
         /\ dg_status' = [dg_status EXCEPT ![a] = "skipped"]
    /\ dg_next' = dg_next + 1
    /\ UNCHANGED othersDagster

NextDagster ==
    \/ DagsterExecute
    \/ DagsterSkip

\* ---- Claims about the Dagster pipeline -----------------------------------

RunEnded == dg_next = Len(ExecutionOrder) + 1
\* The function of the asset was called in the run.
Ran(a) == dg_status[a] \in {"success", "returned_failed", "raised"}

\* C20 as stated: _5_dbt_summaries runs in every run, also when upstream
\* assets (_1 to _4g) fail.
C20_Original == RunEnded => Ran("_5")

\* ---- Executions in any order that respects the dependency edges --------

\* Largest number of steps that run at the same time.
MaxConcurrent == 2

\* The step of an asset is started: it has not been started before and the
\* step of every asset it depends on has finished.  dg_next counts the
\* steps started so far, plus one.
ScheduleStart ==
    /\ Cardinality({r \in Assets : dg_status[r] = "started"}) < MaxConcurrent
    /\ \E a \in Assets :
         /\ dg_status[a] = "pending"
         /\ \A d \in Deps(a) : dg_status[d] = "success"
         /\ dg_status' = [dg_status EXCEPT ![a] = "started"]
    /\ dg_next' = dg_next + 1
    /\ UNCHANGED othersDagster

\* A started step finishes.
ScheduleFinish ==
    /\ \E a \in Assets :
         /\ dg_status[a] = "started"
         /\ dg_status' = [dg_status EXCEPT ![a] = "success"]
    /\ dg_next' = dg_next
    /\ UNCHANGED othersDagster

NextSchedule ==
    \/ ScheduleStart
    \/ ScheduleFinish

\* The assets that a depends on, directly or through other assets.
RECURSIVE UpstreamOf(_)
UpstreamOf(S) ==
    LET T == S \cup UNION {Deps(x) : x \in S}
    IN IF T = S THEN S ELSE UpstreamOf(T)
Acyclic == \A a \in Assets : a \notin UpstreamOf(Deps(a))

\* The assets that, as claimed, have run before a runs.
RunsAfter(a) ==
    CASE a \in Staging -> {"_1"}
      [] a = "_3i" -> Warehouse \ {"_3i"}
      [] a \in Analytics -> {"_3i"}
      [] a \in Summary -> Assets \ Summary
      [] OTHER -> {}

\* C23: the graph of the deps= is acyclic, and in every execution that
\* respects it a step starts only when these steps have finished: _1 for
\* each staging asset _2a.._2i, the eight dimension assets _3a.._3h for
\* the fact asset _3i, _3i for each analytics asset _4a.._4g, and all the
\* other assets for _5.
C23_GraphOrder ==
    /\ []Acyclic
    /\ [][\A a \in Assets :
            (dg_status[a] = "pending" /\ dg_status'[a] = "started") =>
                \A d \in RunsAfter(a) : dg_status[d] = "success"]_vars

\* An execution has come to _5: it is started and every other asset has
\* finished (no cycle has kept a step from becoming ready).
C23_Witness ==
    /\ dg_status["_5"] = "started"
    /\ \A a \in Assets \ Summary : dg_status[a] = "success"
    /\ dg_next = Cardinality(Assets) + 1

\* ======================================================================
\* hf-csv-s3/app.py
\* ======================================================================

\* Largest number of batches (of batch_size = 1000 records) of a file.
MaxBatches == 2

\* The module sets db_available = False on every path of its set-up.
db_available == FALSE

AppTables ==
    {[exists |-> FALSE, batches |-> 0]}
        \cup {[exists |-> TRUE, batches |-> b] : b \in 0..1}

\* Step 2 over the Supabase REST API: the table is emptied if it exists
\* and the delete works, then each batch is upserted (or inserted);
\* inserted[i] tells whether batch i went in.
RestImport(tbl, truncated, inserted) ==
    LET successful_inserts == Cardinality({i \in DOMAIN inserted : inserted[i]})
        kept == IF tbl.exists /\ truncated THEN 0 ELSE tbl.batches
    IN [table |-> [exists |-> tbl.exists \/ successful_inserts > 0,
                   batches |-> kept + successful_inserts],
        inserted_count |-> successful_inserts,
        database_success |-> successful_inserts > 0]

\* Step 2 over the PostgreSQL engine: df.to_sql(if_exists='replace').
SqlImport(tbl, batches, raises) ==
    IF raises THEN [table |-> tbl, inserted_count |-> 0, database_success |-> FALSE]
    ELSE [table |-> [exists |-> TRUE, batches |-> batches],
          inserted_count |-> batches, database_success |-> TRUE]

\* `if database_success:` before steps 3 and 4.
ArchivesRegardless(database_success) == TRUE
ArchivesAfterImport(database_success) == database_success

InitAppVars ==
    /\ up_batches \in 0..MaxBatches
    /\ up_pc = "step1"
    /\ up_import = FALSE
    /\ up_archive = FALSE
    /\ up_table \in AppTables
    /\ up_inserted = 0
    /\ up_success = <<>>

IdleApp ==
    /\ up_batches = 0
    /\ up_pc = "idle"
    /\ up_import = FALSE
    /\ up_archive = FALSE
    /\ up_table = [exists |-> FALSE, batches |-> 0]
    /\ up_inserted = 0
    /\ up_success = <<>>

\* Step 1: read the CSV and upload it to csv-import; an exception ends the
\* workflow ("CRITICAL ERROR").
AppUpload ==
    /\ up_pc = "step1"
    /\ \E raises \in BOOLEAN :
         IF raises THEN up_pc' = "report" /\ up_import' = up_import
         ELSE up_pc' = "step2" /\ up_import' = TRUE
    /\ UNCHANGED <<up_batches, up_archive, up_table, up_inserted, up_success>>
    /\ UNCHANGED othersApp

\* Step 2: download the file from the bucket and import it into the
\* database; then the test of database_success before step 3.
AppImport ==
    /\ up_pc = "step2"
    /\ \E download_fails \in BOOLEAN, truncated \in BOOLEAN, sql_raises \in BOOLEAN,
          inserted \in [1..up_batches -> BOOLEAN] :
         LET r == IF download_fails
                  THEN [table |-> up_table, inserted_count |-> 0,
                        database_success |-> FALSE]
                  ELSE IF db_available
                  THEN SqlImport(up_table, up_batches, sql_raises)
                  ELSE RestImport(up_table, truncated, inserted)
         IN /\ up_table' = r.table
            /\ up_inserted' = r.inserted_count
            /\ up_success' = <<r.database_success>>
            /\ up_pc' = IF ArchivesAfterImport(r.database_success)
                        THEN "step3" ELSE "report"
    /\ UNCHANGED <<up_batches, up_import, up_archive>>
    /\ UNCHANGED othersApp

\* Step 3: copy the file from csv-import to csv-imported.
AppArchive ==
    /\ up_pc = "step3"
    /\ \E raises \in BOOLEAN :
         IF raises THEN up_pc' = "report" /\ up_archive' = up_archive
         ELSE up_pc' = "step4" /\ up_archive' = TRUE
    /\ UNCHANGED <<up_batches, up_import, up_table, up_inserted, up_success>>
    /\ UNCHANGED othersApp

\* Step 4: remove the file from csv-import; a failure is only logged.
AppCleanup ==
    /\ up_pc = "step4"
    /\ \E raises \in BOOLEAN : up_import' = (up_import /\ raises)
    /\ up_pc' = "report"
    /\ UNCHANGED <<up_batches, up_archive, up_table, up_inserted, up_success>>
    /\ UNCHANGED othersApp

\* The final report is returned.
AppReport ==
    /\ up_pc = "report"
    /\ up_pc' = "done"
    /\ UNCHANGED <<up_batches, up_import, up_archive, up_table, up_inserted,
                   up_success>>
    /\ UNCHANGED othersApp

NextApp ==
    \/ AppUpload
    \/ AppImport
    \/ AppArchive
    \/ AppCleanup
    \/ AppReport

\* ---- Claims about the upload app -----------------------------------------

\* C21: the file is copied to csv-imported, and deleted from csv-import,
\* only if the import step succeeded (database_success); when the import
\* has failed the file stays in csv-import and is not archived.
C21_ArchiveOnlyAfterImport ==
    /\ up_archive => up_success = <<TRUE>>
    /\ (up_pc \in {"step3", "step4", "report", "done"} /\ up_success # <<>>
        /\ ~up_import) => (up_success = <<TRUE>> /\ up_archive)
    /\ up_success = <<FALSE>> => (up_import /\ ~up_archive)

\* A workflow has ended after a successful import: the file is archived
\* and gone from csv-import.
C21_Witness ==
    /\ up_pc = "done"
    /\ up_success = <<TRUE>>
    /\ up_archive /\ ~up_import
    /\ up_inserted = up_batches /\ up_batches > 0

\* ======================================================================
\* bec-aws-bq/supabase-bq.py
\* ======================================================================

\* Largest number of rows of a Supabase table.
MaxSource == 5

\* The rows of one request (1000 in the script).
page_size == 2

\* The first of the known tables.
tables_to_process == <<"olist_customers_dataset", "olist_geolocation_dataset">>
SupabaseTables == {tables_to_process[i] : i \in DOMAIN tables_to_process}

\* A BigQuery table loaded by an earlier run.
OldBigQueryTable == [rows |-> MaxSource + 2, loads |-> 0]

\* `if len(all_data) != row_count: continue` before the load job.
RowCountIgnored(fetched, row_count) == TRUE
RowCountValidated(fetched, row_count) == fetched = row_count

InitSupabaseVars ==
    /\ sb_pc = "main"
    /\ sb_index = 1
    /\ sb_source \in [SupabaseTables -> 0..MaxSource]
    /\ sb_changes = 0
    /\ sb_row_count = 0
    /\ sb_offset = 0
    /\ sb_fetched = 0
    /\ sb_bq = [t \in SupabaseTables |-> OldBigQueryTable]

IdleSupabase ==
    /\ sb_pc = "idle"
    /\ sb_index = 0
    /\ sb_source = [t \in SupabaseTables |-> 0]
    /\ sb_changes = 0
    /\ sb_row_count = 0
    /\ sb_offset = 0
    /\ sb_fetched = 0
    /\ sb_bq = [t \in SupabaseTables |-> [rows |-> 0, loads |-> 0]]

\* `continue`: the next table of the loop.
SupabaseNextTable ==
    /\ sb_index' = sb_index + 1
    /\ sb_pc' = "count"
    /\ sb_row_count' = 0
    /\ sb_offset' = 0
    /\ sb_fetched' = 0

\* main(): the environment is read and the clients are created; an
\* exception is logged by the outer handler and main() returns.
SupabaseConnect ==
    /\ sb_pc = "main"
    /\ \E raises \in BOOLEAN : sb_pc' = IF raises THEN "done" ELSE "count"
    /\ UNCHANGED <<sb_index, sb_source, sb_changes, sb_row_count, sb_offset,
                   sb_fetched, sb_bq>>
    /\ UNCHANGED othersSupabase

\* The exact count of the table; a table without rows is skipped, an
\* exception goes to the next table.
SupabaseCount ==
    /\ sb_pc = "count"
    /\ sb_index \in DOMAIN tables_to_process
    /\ \E raises \in BOOLEAN :
         LET row_count == sb_source[tables_to_process[sb_index]] IN
         IF raises \/ row_count = 0
         THEN SupabaseNextTable
         ELSE /\ sb_row_count' = row_count
              /\ sb_pc' = "fetch"
              /\ UNCHANGED <<sb_index, sb_offset, sb_fetched>>
    /\ UNCHANGED <<sb_source, sb_changes, sb_bq>>
    /\ UNCHANGED othersSupabase

\* One pass of `while True`: the rows range(offset, offset + page_size - 1)
\* of the table as it is now; the loop ends on an empty page, a short page
\* or offset >= row_count.  An exception goes to the next table.
SupabaseFetchPage ==
    /\ sb_pc = "fetch"
    /\ \E raises \in BOOLEAN :
         LET rows == sb_source[tables_to_process[sb_index]]
             left == IF rows > sb_offset THEN rows - sb_offset ELSE 0
             batch_size == IF left < page_size THEN left ELSE page_size
         IN IF raises THEN SupabaseNextTable
            ELSE IF batch_size = 0
            THEN /\ sb_pc' = "loaded"
                 /\ UNCHANGED <<sb_index, sb_row_count, sb_offset, sb_fetched>>
            ELSE /\ sb_fetched' = sb_fetched + batch_size
                 /\ sb_offset' = sb_offset + page_size
                 /\ sb_pc' = IF batch_size < page_size
                                \/ sb_offset + page_size >= sb_row_count
                             THEN "loaded" ELSE "fetch"
                 /\ UNCHANGED <<sb_index, sb_row_count>>
    /\ UNCHANGED <<sb_source, sb_changes, sb_bq>>
    /\ UNCHANGED othersSupabase

\* After the loop: nothing fetched or a row count mismatch skips the
\* table; otherwise the load job with WRITE_TRUNCATE replaces the BigQuery
\* table (a failed job leaves it as it was and its exception goes to the
\* next table), then the metadata record is updated.
SupabaseLoad ==
    /\ sb_pc = "loaded"
    /\ LET t == tables_to_process[sb_index] IN
         IF sb_fetched = 0 \/ ~RowCountValidated(sb_fetched, sb_row_count)
         THEN sb_bq' = sb_bq
         ELSE \E job_fails \in BOOLEAN :
                sb_bq' = IF job_fails THEN sb_bq
                         ELSE [sb_bq EXCEPT ![t] =
                                 [rows |-> sb_fetched, loads |-> @.loads + 1]]
    /\ SupabaseNextTable
    /\ UNCHANGED <<sb_source, sb_changes>>
    /\ UNCHANGED othersSupabase

\* The loop over the tables has ended: the final summary.
SupabaseFinish ==
    /\ sb_pc = "count"
    /\ sb_index > Len(tables_to_process)
    /\ sb_pc' = "done"
    /\ UNCHANGED <<sb_index, sb_source, sb_changes, sb_row_count, sb_offset,
                   sb_fetched, sb_bq>>
    /\ UNCHANGED othersSupabase

\* Another client inserts or deletes a row of a Supabase table while the
\* script runs.
SupabaseChange ==
    /\ sb_pc \in {"count", "fetch", "loaded"}
    /\ sb_changes < MaxChanges
    /\ \E t \in SupabaseTables, rows \in 0..MaxSource :
         /\ rows \in {sb_source[t] - 1, sb_source[t] + 1}
         /\ sb_source' = [sb_source EXCEPT ![t] = rows]
    /\ sb_changes' = sb_changes + 1
    /\ UNCHANGED <<sb_pc, sb_index, sb_row_count, sb_offset, sb_fetched, sb_bq>>
    /\ UNCHANGED othersSupabase

NextSupabase ==
    \/ SupabaseConnect
    \/ SupabaseCount
    \/ SupabaseFetchPage
    \/ SupabaseLoad
    \/ SupabaseFinish
    \/ SupabaseChange

\* ---- Claims about supabase-bq.py -----------------------------------------

\* The script leaves the table it is processing and turns to the next.
TurnsToNextTable == sb_index' = sb_index + 1 /\ sb_pc' = "count"

\* C25: a BigQuery table is written only by the load of the table being
\* processed, after the rows fetched equal the row count reported for it;
\* a row count mismatch, and an error while counting or fetching, leave
\* every BigQuery table as it was and turn the script to the next table.
C25_WriteOnlyAfterValidation ==
    [][/\ (sb_bq' # sb_bq) =>
            /\ sb_pc = "loaded"
            /\ sb_fetched = sb_row_count /\ sb_row_count > 0
            /\ sb_bq' = [sb_bq EXCEPT ![tables_to_process[sb_index]] =
                           [rows |-> sb_row_count, loads |-> @.loads + 1]]
       /\ (sb_pc = "loaded" /\ sb_fetched # sb_row_count) =>
            ((sb_bq' = sb_bq /\ TurnsToNextTable) \/ sb_source' # sb_source)
       /\ (sb_pc \in {"count", "fetch"}) => sb_bq' = sb_bq
       /\ (sb_pc \in {"count", "fetch"} /\ sb_index' # sb_index) =>
            TurnsToNextTable]_vars

\* The run has ended: the first table was skipped with its BigQuery table
\* as it was (its rows changed between the count and the pages), and the
\* second table was processed after it and written with all its rows.
C25_Witness ==
    /\ sb_pc = "done"
    /\ sb_changes = 1
    /\ sb_bq[tables_to_process[1]] = OldBigQueryTable
    /\ sb_source[tables_to_process[1]] > 0
    /\ sb_bq[tables_to_process[2]] =
          [rows |-> sb_source[tables_to_process[2]], loads |-> 1]
    /\ sb_source[tables_to_process[2]] > page_size

\* ======================================================================
\* Specifications: one per script, the other scripts idle.
\* ======================================================================

\* No table name is being derived.
IdleName == nm_file = <<>> /\ nm_loader = None /\ nm_table = <<>>

InitCleanup ==
    /\ InitCleanupVars /\ IdleTransfer /\ IdleLoader /\ IdleName /\ IdleOrchestrator /\ IdleDelete /\ IdleMeltano /\ IdleDagster /\ IdleApp /\ IdleSupabase
    /\ reachable \in BOOLEAN
SpecCleanup == InitCleanup /\ [][NextCleanup]_vars

InitTransfer ==
    /\ InitTransferVars /\ IdleCleanup /\ IdleLoader /\ IdleName /\ IdleOrchestrator /\ IdleDelete /\ IdleMeltano /\ IdleDagster /\ IdleApp /\ IdleSupabase
    /\ reachable \in BOOLEAN
SpecTransfer == InitTransfer /\ [][NextTransfer]_vars

InitChunked ==
    /\ InitChunkedVars /\ IdleCleanup /\ IdleLoader /\ IdleName /\ IdleOrchestrator /\ IdleDelete /\ IdleMeltano /\ IdleDagster /\ IdleApp /\ IdleSupabase
    /\ reachable = TRUE
SpecChunked == InitChunked /\ [][NextChunked]_vars

InitLoader ==
    /\ InitLoaderVars /\ IdleCleanup /\ IdleTransfer /\ IdleName /\ IdleOrchestrator /\ IdleDelete /\ IdleMeltano /\ IdleDagster /\ IdleApp /\ IdleSupabase
    /\ reachable \in BOOLEAN
SpecLoader == InitLoader /\ [][NextLoader]_vars

InitName ==
    /\ InitNameVars /\ IdleCleanup /\ IdleTransfer /\ IdleLoader /\ IdleOrchestrator /\ IdleDelete /\ IdleMeltano /\ IdleDagster /\ IdleApp /\ IdleSupabase
    /\ reachable = TRUE
SpecName == InitName /\ [][NextName]_vars

InitOrchestrator ==
    /\ InitOrchestratorVars /\ IdleCleanup /\ IdleTransfer /\ IdleLoader /\ IdleName /\ IdleDelete /\ IdleMeltano /\ IdleDagster /\ IdleApp /\ IdleSupabase
    /\ reachable = TRUE
SpecOrchestrator == InitOrchestrator /\ [][NextOrchestrator]_vars
\* Every script that run_script starts returns, and main() is straight-line
\* code between the stages: a run that can take a step takes one.
SpecOrchestratorFair == SpecOrchestrator /\ WF_vars(NextOrchestrator)

InitDelete ==
    /\ InitDeleteVars /\ IdleCleanup /\ IdleTransfer /\ IdleLoader /\ IdleName /\ IdleOrchestrator /\ IdleMeltano /\ IdleDagster /\ IdleApp /\ IdleSupabase
    /\ reachable = TRUE
SpecDelete == InitDelete /\ [][NextDelete]_vars

InitMeltano ==
    /\ InitMeltanoVars /\ IdleCleanup /\ IdleTransfer /\ IdleLoader /\ IdleName /\ IdleOrchestrator /\ IdleDelete /\ IdleDagster /\ IdleApp /\ IdleSupabase
    /\ reachable = TRUE
SpecMeltano == InitMeltano /\ [][NextMeltano]_vars

InitDagster ==
    /\ InitDagsterVars /\ IdleCleanup /\ IdleTransfer /\ IdleLoader /\ IdleName /\ IdleOrchestrator /\ IdleDelete /\ IdleMeltano /\ IdleApp /\ IdleSupabase
    /\ reachable = TRUE
SpecDagster == InitDagster /\ [][NextDagster]_vars

InitApp ==
    /\ InitAppVars /\ IdleCleanup /\ IdleTransfer /\ IdleLoader /\ IdleName /\ IdleOrchestrator /\ IdleDelete /\ IdleMeltano /\ IdleDagster /\ IdleSupabase
    /\ reachable = TRUE
SpecApp == InitApp /\ [][NextApp]_vars

InitSchedule == InitDagster
SpecSchedule == InitSchedule /\ [][NextSchedule]_vars

InitSupabase ==
    /\ InitSupabaseVars /\ IdleCleanup /\ IdleTransfer /\ IdleLoader /\ IdleName /\ IdleOrchestrator /\ IdleDelete /\ IdleMeltano /\ IdleDagster /\ IdleApp
    /\ reachable = TRUE
SpecSupabase == InitSupabase /\ [][NextSupabase]_vars

InitSharedFolder ==
    /\ InitSharedFolderVars /\ IdleCleanup /\ IdleTransfer /\ IdleName /\ IdleOrchestrator /\ IdleDelete /\ IdleMeltano /\ IdleDagster /\ IdleApp /\ IdleSupabase
    /\ reachable = TRUE
SpecSharedFolder == InitSharedFolder /\ [][NextSharedFolder]_vars

\* ---- Claims about the start-up of the scripts -----------------------------

\* The position of a script is before its listing, or it has exited with a
\* non-zero code.
AbortedOrNotStarted(pc, exit) ==
    /\ pc \in {"idle", "main", "exit"}
    /\ pc = "exit" => (exit # Running /\ exit # Exited(0))

InitStartup == InitCleanup \/ InitTransfer \/ InitLoader
NextStartup == NextCleanup \/ NextTransfer \/ NextLoader
SpecStartup == InitStartup /\ [][NextStartup]_vars

====
